---- MODULE Spec2Model ----
(***************************************************************************)
(* Gesture / motion analytics of rehab_gamification: HandTracker's pinch   *)
(* detector, BaseGame's motion and pinch accumulators, and the game loops  *)
(* that drive them.                                                        *)
(*                                                                         *)
(* Numbers.  Pixel coordinates and clock readings are integers.  Python    *)
(* floats are modelled as exact rationals <<num, den>> in lowest terms     *)
(* with den > 0.  Float rounding error is not modelled, except where the   *)
(* source truncates a float product to an index (FloatShortfalls).         *)
(* math.hypot is exact on the inputs used here: every pair of points the   *)
(* model draws is an integer distance apart.                               *)
(* Python's None is the empty tuple; a present value is itself (a          *)
(* position <<x, y>>) or a one-element tuple <<t>> (a clock reading).      *)
(***************************************************************************)
EXTENDS Integers, Sequences, FiniteSets, TLC

VARIABLES
    pc,            \* which loop of the program is running
    now,           \* last reading of time.time()
    n_calls,       \* handler calls / loop iterations so far
    op,            \* the handler call that produced this state, with its inputs
    game,          \* the BaseGame object (self) with its subclass fields
    hand_tracker,  \* the HandTracker object: the fields set_calibration sets
    was_pinching,  \* local of _main_menu / show_game_over_screen
    frames_seen,   \* observer: thumb-index gap of each frame a loop gave the pinch detector
    edges,         \* observer: edges a caller sees by comparing with the prior frame
    smoothness,    \* value calculate_movement_smoothness returned, None before the call
    consistency,   \* value _calculate_pinch_consistency returned, None before the call
    session_data,  \* dict get_enhanced_session_data returned last, None before the call
    calibration_screen,  \* the CalibrationScreen object, None when there is none
    calibration_result,  \* dict CalibrationScreen.run returned, None before it returns
    angles,        \* the last joint angle computed, by both pipelines, None before
    quit_pending,  \* a QUIT event is waiting in the pygame event queue
    app            \* MainApp: its shared camera and the sessions its DataManager saved

vars == <<pc, now, n_calls, op, game, hand_tracker, was_pinching, frames_seen, edges,
          smoothness, consistency, session_data, calibration_screen, calibration_result,
          angles, quit_pending, app>>

None == << >>

\* MainApp after __init__: the camera every screen and game reads from is
\* open, and the DataManager has stored no session of this run yet
NewMainApp == [cap_is_opened |-> TRUE, saved_sessions |-> 0]

(***************************************************************************)
(* Bounds                                                                  *)
(***************************************************************************)
MaxCalls == 5          \* handler calls per behaviour
MaxFrames == 3         \* loop iterations of a game session per behaviour
MaxSpeeds == 4         \* longest speed history given to the smoothness score
MaxSpeed == 3          \* largest speed sample given to the smoothness score
Ticks == {0, 1, 2}     \* clock advance between two readings of time.time()

(***************************************************************************)
(* Exact rational arithmetic (the float operations of the source)          *)
(***************************************************************************)
RECURSIVE GCD(_, _)
GCD(a, b) == IF b = 0 THEN a ELSE GCD(b, a % b)

Abs(x) == IF x < 0 THEN -x ELSE x

Rat(n, d) ==
    LET s == IF d < 0 THEN -1 ELSE 1
        g == GCD(Abs(n), Abs(d))
    IN  <<(s * n) \div g, (s * d) \div g>>

RInt(n) == <<n, 1>>
RAdd(a, b) == Rat(a[1] * b[2] + b[1] * a[2], a[2] * b[2])
RSub(a, b) == Rat(a[1] * b[2] - b[1] * a[2], a[2] * b[2])
RMul(a, b) == Rat(a[1] * b[1], a[2] * b[2])
RDiv(a, b) == Rat(a[1] * b[2], a[2] * b[1])
RLess(a, b) == a[1] * b[2] < b[1] * a[2]
RMax(a, b) == IF RLess(a, b) THEN b ELSE a

RECURSIVE RSum(_)
RSum(s) == IF s = << >> THEN RInt(0) ELSE RAdd(s[1], RSum(Tail(s)))

\* round(x, 2): nearest hundredth, ties to the even hundredth
Round2(x) ==
    LET n == x[1] * 100
        q == n \div x[2]
        r == n % x[2]
        h == IF 2 * r < x[2] THEN q
             ELSE IF 2 * r > x[2] THEN q + 1
             ELSE IF q % 2 = 0 THEN q ELSE q + 1
    IN  Rat(h, 100)

\* math.sqrt / math.hypot on a perfect square
Sqrt(n) == CHOOSE r \in 0..n : r * r <= n /\ (r + 1) * (r + 1) > n

(***************************************************************************)
(* HandTracker                                                             *)
(***************************************************************************)
\* lm_list[i] of the source (0-based) in a list of [id, x, y] entries
At(lm_list, i) == lm_list[i + 1]

calculate_distance(p1, p2) ==
    LET x1 == p1[2]
        y1 == p1[3]
        x2 == p2[2]
        y2 == p2[3]
    IN  Sqrt((x2 - x1) * (x2 - x1) + (y2 - y1) * (y2 - y1))

get_pinch_midpoint_ThumbFallback(lm_list) ==
    IF Len(lm_list) >= 9
    THEN <<(lm_list[5][2] + lm_list[9][2]) \div 2, (lm_list[5][3] + lm_list[9][3]) \div 2>>
    ELSE IF Len(lm_list) >= 5 THEN <<lm_list[5][2], lm_list[5][3]>> ELSE <<0, 0>>

get_pinch_midpoint(lm_list) ==
    IF Len(lm_list) >= 9
    THEN LET thumb_tip == At(lm_list, 4)
             index_tip == At(lm_list, 8)
         IN  <<(thumb_tip[2] + index_tip[2]) \div 2, (thumb_tip[3] + index_tip[3]) \div 2>>
    ELSE <<0, 0>>

DefaultPinchThreshold == 40

PinchDistanceBelow_Inclusive(distance, pinch_threshold) == distance <= pinch_threshold

PinchDistanceBelow(distance, pinch_threshold) == distance < pinch_threshold

\* returns <<is_pinching, pinch_pos>>
get_pinch_gesture(lm_list, pinch_threshold) ==
    LET pinch_pos == get_pinch_midpoint(lm_list)
        is_pinching ==
            IF Len(lm_list) >= 9
            THEN PinchDistanceBelow(calculate_distance(At(lm_list, 4), At(lm_list, 8)),
                                    pinch_threshold)
            ELSE FALSE
    IN  <<is_pinching, pinch_pos>>

(***************************************************************************)
(* Landmark snapshots delivered by the detector                            *)
(***************************************************************************)
\* a snapshot of n landmarks [id, x, y]; only ids 4 and 8 are read by the
\* accumulators, the other joints sit on the index tip
LmList(n, thumb_tip, index_tip) ==
    [i \in 1..n |-> IF i = 5 THEN <<4, thumb_tip[1], thumb_tip[2]>>
                    ELSE <<i - 1, index_tip[1], index_tip[2]>>]

IndexTips == {<<100, 100>>, <<100, 101>>, <<100, 104>>}
\* full hands: offsets are the thumb tip relative to the index tip
FullSnapshots(tips, offsets) ==
    {LmList(21, <<i[1] + o[1], i[2] + o[2]>>, i) : i \in tips, o \in offsets}
PartialSnapshots == {LmList(8, <<118, 124>>, <<100, 100>>)}
NoHand == << >>

(***************************************************************************)
(* BaseGame: construction                                                  *)
(***************************************************************************)
\* hand_positions, a log of (x, y, time) capped at 1000 entries that nothing
\* reads back, keeps its last entry only; the never-updated
\* movement_smoothness_score / pinch_accuracy keys are left out
InitHandMovementData ==
    [total_movements |-> 0, successful_interactions |-> 0,
     movement_distances |-> << >>, movement_speeds |-> << >>, hand_positions |-> << >>,
     hand_detected_frames |-> 0, total_frames |-> 0, tracking_lost_count |-> 0]

InitPinchData ==
    [total_pinch_attempts |-> 0, successful_pinches |-> 0, pinch_distances |-> << >>,
     pinch_durations |-> << >>, pinch_positions |-> << >>, pinch_timing |-> << >>,
     failed_pinches |-> 0]

DefaultCalibration == [pinch_threshold |-> 40, sensitivity |-> RInt(1)]

\* BaseGame.__init__ at clock reading t, followed by the subclass fields
\* (BalloonPopGame.score / balloons; DinoGame.points, total_jumps, pinch_count
\* and last_pinch_state)
NewGame(calibration, t) ==
    [game_over |-> FALSE,
     calibration_data |-> IF calibration = None THEN DefaultCalibration ELSE calibration,
     session_start_time |-> t,
     hand_movement_data |-> InitHandMovementData,
     pinch_data |-> InitPinchData,
     last_hand_position |-> None,
     last_frame_time |-> t,
     current_pinch_start |-> None,
     last_pinch_time |-> None,
     was_hand_detected_last_frame |-> FALSE,
     score |-> 0,
     balloons |-> 0,
     points |-> 0,
     total_jumps |-> 0,
     pinch_count |-> 0,
     last_pinch_state |-> FALSE]

NewHandTracker == [calibrated_pinch_threshold |-> None, sensitivity |-> None]

\* record of a handler call: its inputs, what the pinch detector returned to
\* the handler (gesture, at threshold) and, when the handler went on to call
\* track_pinch_event, how that call classified the same frame (tracked: None
\* or <<is_pinching>>)
Call(name, lm_list, was_successful, time, threshold, gesture, tracked) ==
    [name |-> name, lm_list |-> lm_list, was_successful |-> was_successful,
     time |-> time, threshold |-> threshold,
     is_pinching |-> gesture[1], pinch_pos |-> gesture[2], tracked |-> tracked]

NoGesture == <<FALSE, <<0, 0>>>>

NoOp == Call("init", NoHand, FALSE, 0, 0, NoGesture, None)

(***************************************************************************)
(* BaseGame._track_hand_data                                               *)
(***************************************************************************)
HandDetected(lm_list) == lm_list # << >> /\ Len(lm_list) > 8

IsSignificantMovement_NoFloor(time_diff, distance) == time_diff > 0 /\ distance >= 1

IsSignificantMovement(time_diff, distance) == time_diff > 0 /\ distance > 1

MovementSpeed(distance, time_diff) == Rat(distance, time_diff)

TrackingLost_EveryFrame(detected, was_detected) == ~detected

TrackingLost(detected, was_detected) == ~detected /\ was_detected

\* self after _track_hand_data, with current_time = time.time() read at entry
_track_hand_data(self, lm_list, current_time) ==
    LET detected == HandDetected(lm_list)
        current_pos == <<At(lm_list, 8)[2], At(lm_list, 8)[3]>>
        last == self.last_hand_position
        distance == Sqrt((current_pos[1] - last[1]) * (current_pos[1] - last[1])
                         + (current_pos[2] - last[2]) * (current_pos[2] - last[2]))
        time_diff == current_time - self.last_frame_time
        record == /\ detected
                  /\ last # None
                  /\ IsSignificantMovement(time_diff, distance)
    IN  [self EXCEPT
            !.hand_movement_data =
                [@ EXCEPT
                    !.total_frames = @ + 1,
                    !.hand_detected_frames = IF detected THEN @ + 1 ELSE @,
                    !.movement_distances = IF record THEN Append(@, distance) ELSE @,
                    !.movement_speeds =
                        IF record THEN Append(@, MovementSpeed(distance, time_diff)) ELSE @,
                    !.total_movements = IF record THEN @ + 1 ELSE @,
                    !.hand_positions =
                        IF detected THEN <<<<current_pos[1], current_pos[2], current_time>>>>
                        ELSE @,
                    !.tracking_lost_count =
                        IF TrackingLost(detected, self.was_hand_detected_last_frame)
                        THEN @ + 1 ELSE @],
            !.last_hand_position = IF detected THEN current_pos ELSE @,
            !.was_hand_detected_last_frame = detected,
            !.last_frame_time = current_time]

(***************************************************************************)
(* BaseGame.track_pinch_event                                              *)
(***************************************************************************)
IsNewPinch_WhileHeld(is_pinching, current_pinch_start) == is_pinching

IsNewPinch(is_pinching, current_pinch_start) == is_pinching /\ current_pinch_start = None

IsPinchEnd(is_pinching, current_pinch_start) == ~is_pinching /\ current_pinch_start # None

PinchDuration_NoStart(current_time, current_pinch_start) == current_time

PinchDuration(current_time, current_pinch_start) == current_time - current_pinch_start[1]

\* the threshold track_pinch_event classifies with: it calls
\* get_pinch_gesture(lm_list) and so takes the parameter's default
TrackPinchThreshold(self) == DefaultPinchThreshold

\* self after track_pinch_event; current_time is read only past the early return
track_pinch_event(self, lm_list, was_successful, current_time) ==
    IF lm_list = << >> \/ Len(lm_list) < 9
    THEN self
    ELSE
    LET g == get_pinch_gesture(lm_list, TrackPinchThreshold(self))
        is_pinching == g[1]
        pinch_pos == g[2]
        start == IsNewPinch(is_pinching, self.current_pinch_start)
        end == IsPinchEnd(is_pinching, self.current_pinch_start)
        pinch_distance == calculate_distance(At(lm_list, 4), At(lm_list, 8))
    IN  [self EXCEPT
            !.pinch_data =
                [@ EXCEPT
                    !.total_pinch_attempts = IF start THEN @ + 1 ELSE @,
                    !.pinch_timing =
                        IF start /\ self.last_pinch_time # None
                        THEN Append(@, current_time - self.last_pinch_time[1]) ELSE @,
                    !.pinch_distances = IF start THEN Append(@, pinch_distance) ELSE @,
                    !.pinch_positions = IF start THEN Append(@, pinch_pos) ELSE @,
                    !.successful_pinches = IF start /\ was_successful THEN @ + 1 ELSE @,
                    !.failed_pinches = IF start /\ ~was_successful THEN @ + 1 ELSE @,
                    !.pinch_durations =
                        IF end THEN Append(@, PinchDuration(current_time, self.current_pinch_start))
                        ELSE @],
            !.hand_movement_data =
                [@ EXCEPT !.successful_interactions =
                              IF start /\ was_successful THEN @ + 1 ELSE @],
            !.current_pinch_start =
                IF start THEN <<current_time>> ELSE IF end THEN None ELSE @,
            !.last_pinch_time = IF end THEN <<current_time>> ELSE @]

(***************************************************************************)
(* Direct use of the two accumulators: any sequence of calls               *)
(***************************************************************************)
\* pinch distances 30 (a pinch at the default threshold) and 40 (not a pinch)
PinchSnapshots ==
    {NoHand} \cup PartialSnapshots \cup FullSnapshots({<<100, 100>>}, {<<18, 24>>, <<24, 32>>})
\* index tip at rest, 1 px, 3 px or 4 px away from its previous position
HandSnapshots ==
    {NoHand} \cup PartialSnapshots \cup FullSnapshots(IndexTips, {<<18, 24>>})

InitApi(loop) ==
    /\ pc = loop
    /\ now = 0
    /\ n_calls = 0
    /\ op = NoOp
    /\ game = NewGame(None, 0)
    /\ hand_tracker = NewHandTracker
    /\ was_pinching = FALSE
    /\ frames_seen = << >>
    /\ edges = [rising |-> 0, falling |-> 0]
    /\ smoothness = None
    /\ consistency = None
    /\ session_data = None
    /\ calibration_screen = None
    /\ calibration_result = None
    /\ angles = None
    /\ quit_pending = FALSE
    /\ app = NewMainApp

InitPinch == InitApi("pinch_api")

TrackPinchEventCall ==
    /\ pc = "pinch_api"
    /\ n_calls < MaxCalls
    /\ \E lm_list \in PinchSnapshots, was_successful \in BOOLEAN, dt \in {1, 2} :
          LET current_time == now + dt
              g == get_pinch_gesture(lm_list, DefaultPinchThreshold)
          IN  /\ game' = track_pinch_event(game, lm_list, was_successful, current_time)
              /\ now' = current_time
              /\ op' = Call("track_pinch_event", lm_list, was_successful, current_time,
                             DefaultPinchThreshold, g, None)
    /\ n_calls' = n_calls + 1
    /\ UNCHANGED <<pc, hand_tracker, was_pinching, frames_seen, edges, smoothness, consistency, session_data,
                   calibration_screen, calibration_result,
                   angles, quit_pending, app>>

NextPinch == TrackPinchEventCall

SpecPinch == InitPinch /\ [][NextPinch]_vars

InitHand == InitApi("hand_api")

TrackHandDataCall ==
    /\ pc = "hand_api"
    /\ n_calls < MaxCalls
    /\ \E lm_list \in HandSnapshots, dt \in Ticks :
          LET current_time == now + dt
          IN  /\ game' = _track_hand_data(game, lm_list, current_time)
              /\ now' = current_time
              /\ op' = Call("_track_hand_data", lm_list, FALSE, current_time, 0,
                             NoGesture, None)
    /\ n_calls' = n_calls + 1
    /\ UNCHANGED <<pc, hand_tracker, was_pinching, frames_seen, edges, smoothness, consistency, session_data,
                   calibration_screen, calibration_result,
                   angles, quit_pending, app>>

NextHand == TrackHandDataCall

SpecHand == InitHand /\ [][NextHand]_vars

(***************************************************************************)
(* HandTracker.get_pinch_gesture called frame after frame                  *)
(***************************************************************************)
\* thresholds a session can run with: the default 40, and 1.2 x 30 and
\* 1.2 x 40 as calibration computes them
Thresholds == {36, 40, 48}
\* no hand, 5 and 8 landmarks, and full hands at tip distances 30, 39, 40, 45
GestureSnapshots ==
    {NoHand, LmList(5, <<118, 124>>, <<100, 100>>)} \cup PartialSnapshots
    \cup FullSnapshots(IndexTips, {<<18, 24>>, <<15, 36>>, <<24, 32>>, <<27, 36>>})

InitGesture == InitApi("gesture_api")

GetPinchGestureCall ==
    /\ pc = "gesture_api"
    /\ n_calls < MaxCalls
    /\ \E lm_list \in GestureSnapshots, pinch_threshold \in Thresholds :
          op' = Call("get_pinch_gesture", lm_list, FALSE, now, pinch_threshold,
                     get_pinch_gesture(lm_list, pinch_threshold), None)
    /\ n_calls' = n_calls + 1
    /\ UNCHANGED <<pc, now, game, hand_tracker, was_pinching, frames_seen, edges,
                   smoothness, consistency, session_data,
                   calibration_screen, calibration_result,
                   angles, quit_pending, app>>

NextGesture == GetPinchGestureCall

SpecGesture == InitGesture /\ [][NextGesture]_vars

(***************************************************************************)
(* Loops that detect pinch edges: DinoGame.run and MainApp._main_menu      *)
(***************************************************************************)
\* no hand, and full hands at tip distances 30, 40 and 45
EdgeSnapshots == {NoHand} \cup FullSnapshots({<<100, 100>>}, {<<18, 24>>, <<24, 32>>, <<27, 36>>})

\* what the frame handed to the detector shows: the squared thumb-index gap,
\* or -1 when a tip is missing
ObservedGap(lm_list) ==
    IF Len(lm_list) >= 9
    THEN (lm_list[5][2] - lm_list[9][2]) * (lm_list[5][2] - lm_list[9][2])
         + (lm_list[5][3] - lm_list[9][3]) * (lm_list[5][3] - lm_list[9][3])
    ELSE -1

\* what a caller that keeps the prior frame's is_pinching sees on this frame
SeeEdges(e, is_pinching, prior) ==
    [rising |-> IF is_pinching /\ ~prior THEN e.rising + 1 ELSE e.rising,
     falling |-> IF ~is_pinching /\ prior THEN e.falling + 1 ELSE e.falling]

IsRisingEdge_Level(is_pinching, prior) == is_pinching

IsRisingEdge(is_pinching, prior) == is_pinching /\ ~prior

\* the value a screen gives was_pinching before its first frame: True in
\* BaseGame.show_game_over_screen, False in _main_menu
WasPinchingAtOpen_False(screen) == FALSE

WasPinchingAtOpen(screen) == screen = "game_over_screen"

\* MainApp._run_game after game.run() has returned the session data:
\* data_manager.save_session writes them to a file
SaveSession ==
    /\ pc = "returned"
    /\ pc' = "saved"
    /\ app' = [app EXCEPT !.saved_sessions = @ + 1]
    /\ op' = [op EXCEPT !.name = "save_session"]
    /\ UNCHANGED <<now, n_calls, game, hand_tracker, was_pinching, frames_seen, edges,
                   smoothness, consistency, session_data, calibration_screen,
                   calibration_result, angles, quit_pending>>

\* the user closes the window or presses ESC while a loop is running: the
\* event waits in the queue until a loop calls pygame.event.get()
QuitRequested ==
    /\ pc \in {"menu", "dino", "balloon", "angle_master", "maze", "finger_painter",
               "pinch_runner"}
    /\ ~game.game_over
    /\ ~quit_pending
    /\ quit_pending' = TRUE
    /\ op' = [op EXCEPT !.name = "quit_requested"]
    /\ UNCHANGED <<pc, now, n_calls, game, hand_tracker, was_pinching, frames_seen, edges,
                   smoothness, consistency, session_data, calibration_screen,
                   calibration_result, angles, app>>

\* DinoGame as _run_game constructs it with the calibration result, the main
\* menu at its first frame, or BaseGame.show_game_over_screen as it opens
InitEdges ==
    /\ pc \in {"dino", "menu", "game_over_screen"}
    /\ now = 0
    /\ n_calls = 0
    /\ op = NoOp
    /\ \E t \in Thresholds :
          /\ game = NewGame(IF pc # "menu" THEN [pinch_threshold |-> t, sensitivity |-> RInt(1)]
                            ELSE None, 0)
          /\ hand_tracker = IF pc # "menu"
                            THEN [calibrated_pinch_threshold |-> <<t>>,
                                  sensitivity |-> <<RInt(1)>>]
                            ELSE NewHandTracker
    /\ was_pinching = WasPinchingAtOpen(pc)
    /\ frames_seen = << >>
    /\ edges = [rising |-> 0, falling |-> 0]
    /\ smoothness = None
    /\ consistency = None
    /\ session_data = None
    /\ calibration_screen = None
    /\ calibration_result = None
    /\ angles = None
    /\ quit_pending = FALSE
    /\ app = NewMainApp

\* one iteration of DinoGame.run whose camera read fails: continue
DinoFrameSkipped ==
    /\ pc = "dino"
    /\ ~game.game_over
    /\ n_calls < MaxCalls
    /\ n_calls' = n_calls + 1
    /\ op' = [op EXCEPT !.name = "dino_read_failed"]
    /\ UNCHANGED <<pc, now, game, hand_tracker, was_pinching, frames_seen, edges,
                   smoothness, consistency, session_data,
                   calibration_screen, calibration_result,
                   angles, quit_pending, app>>

\* one iteration of DinoGame.run with a frame read: display_camera_feed, the
\* event queue (QUIT / ESC), the pinch detector, the edge count, then the
\* obstacle physics, of which only the outcome "the dinosaur hits an obstacle"
\* is kept
DinoFrame ==
    /\ pc = "dino"
    /\ ~game.game_over
    /\ n_calls < MaxCalls
    /\ \E lm_list \in EdgeSnapshots, collides \in BOOLEAN :
          LET current_time == now + 1
              quit == quit_pending
              tracked == _track_hand_data(game, lm_list, current_time)
              threshold == game.calibration_data.pinch_threshold
              g == get_pinch_gesture(lm_list, threshold)
              is_pinching == g[1]
              rising == IsRisingEdge(is_pinching, game.last_pinch_state)
          IN  /\ game' = [tracked EXCEPT
                             !.pinch_count = IF rising THEN @ + 1 ELSE @,
                             !.total_jumps = IF rising THEN @ + 1 ELSE @,
                             !.last_pinch_state = is_pinching,
                             !.points = @ + 1,
                             !.game_over = quit \/ collides]
              /\ edges' = SeeEdges(edges, is_pinching, game.last_pinch_state)
              /\ frames_seen' = Append(frames_seen, ObservedGap(lm_list))
              /\ now' = current_time
              /\ op' = Call("dino_frame", lm_list, FALSE, current_time, threshold, g, None)
    /\ quit_pending' = FALSE
    /\ n_calls' = n_calls + 1
    /\ UNCHANGED <<pc, hand_tracker, was_pinching, smoothness, consistency, session_data,
                   calibration_screen, calibration_result, angles, app>>

\* DinoGame.show_game_over_screen returns on a mouse click, and run returns;
\* closing the window ends the process
DinoGameOver ==
    /\ pc = "dino"
    /\ game.game_over
    /\ \E event \in {"MOUSEBUTTONDOWN", "QUIT"} :
          pc' = IF event = "QUIT" THEN "exited" ELSE "returned"
    /\ op' = [op EXCEPT !.name = "dino_game_over"]
    /\ UNCHANGED <<now, n_calls, game, hand_tracker, was_pinching, frames_seen, edges,
                   smoothness, consistency, session_data,
                   calibration_screen, calibration_result,
                   angles, quit_pending, app>>

\* one iteration of _main_menu whose camera read fails: continue
MenuFrameSkipped ==
    /\ pc = "menu"
    /\ n_calls < MaxCalls
    /\ n_calls' = n_calls + 1
    /\ op' = [op EXCEPT !.name = "menu_read_failed"]
    /\ UNCHANGED <<pc, now, game, hand_tracker, was_pinching, frames_seen, edges,
                   smoothness, consistency, session_data,
                   calibration_screen, calibration_result,
                   angles, quit_pending, app>>

\* one iteration of _main_menu with a frame read.  event is what the event
\* queue holds (QUIT when one is pending); over_button tells whether the cursor (the hand position, or the
\* mouse position of a click) lies on a menu button.
MenuFrame ==
    /\ pc = "menu"
    /\ n_calls < MaxCalls
    /\ \E lm_list \in EdgeSnapshots, event \in {"none", "QUIT", "MOUSEBUTTONDOWN"},
          over_button \in BOOLEAN :
          LET g == get_pinch_gesture(lm_list, DefaultPinchThreshold)
              is_pinching == g[1]
              click == event = "MOUSEBUTTONDOWN" \/ IsRisingEdge(is_pinching, was_pinching)
          IN  /\ (event = "QUIT") = quit_pending
              /\ op' = Call("menu_frame", lm_list, FALSE, now, DefaultPinchThreshold, g, None)
                       @@ [event |-> event, over_button |-> over_button]
              /\ frames_seen' = Append(frames_seen, ObservedGap(lm_list))
              /\ IF event = "QUIT"
                 THEN /\ pc' = "exited"
                      /\ UNCHANGED <<was_pinching, edges>>
                 ELSE /\ was_pinching' = is_pinching
                      /\ edges' = SeeEdges(edges, is_pinching, was_pinching)
                      /\ pc' = IF click /\ over_button THEN "selected" ELSE "menu"
    /\ quit_pending' = FALSE
    /\ n_calls' = n_calls + 1
    /\ UNCHANGED <<now, game, hand_tracker, smoothness, consistency, session_data,
                   calibration_screen, calibration_result, angles, app>>

(***************************************************************************)
(* A calibrated session: BalloonPopGame.run, and the game-over screen of   *)
(* BaseGame that the games without their own screen show                   *)
(***************************************************************************)
MaxBalloons == 15

\* no hand, and full hands at tip distances 30, 39 and 45
SessionSnapshots ==
    {NoHand} \cup FullSnapshots({<<100, 100>>}, {<<18, 24>>, <<15, 36>>, <<27, 36>>})

\* how track_pinch_event classifies a frame it is given
TrackedGesture(self, lm_list) ==
    IF lm_list = << >> \/ Len(lm_list) < 9
    THEN None
    ELSE <<get_pinch_gesture(lm_list, TrackPinchThreshold(self))[1]>>

\* the threshold show_game_over_screen detects the closing pinch with: it
\* calls get_pinch_gesture(lm_list) and so takes the parameter's default
GameOverPinchThreshold(self) == DefaultPinchThreshold

\* MainApp._run_game has run calibration (result t), applied it with
\* set_calibration and constructed the game with it.  pc = "balloon": at the
\* head of BalloonPopGame.run.  pc = "game_over_screen": a game that shows
\* BaseGame.show_game_over_screen (FingerPainterGame, MazeGame) has left its
\* loop; the accumulators are as constructed, which is the state of such a
\* session when no camera read succeeded before it ended.
InitSession ==
    /\ pc \in {"balloon", "game_over_screen"}
    /\ now = 0
    /\ n_calls = 0
    /\ op = NoOp
    /\ \E t \in Thresholds :
          /\ game = NewGame([pinch_threshold |-> t, sensitivity |-> RInt(1)], 0)
          /\ hand_tracker = [calibrated_pinch_threshold |-> <<t>>, sensitivity |-> <<RInt(1)>>]
    /\ was_pinching = WasPinchingAtOpen(pc)
    /\ frames_seen = << >>
    /\ edges = [rising |-> 0, falling |-> 0]
    /\ smoothness = None
    /\ consistency = None
    /\ session_data = None
    /\ calibration_screen = None
    /\ calibration_result = None
    /\ angles = None
    /\ quit_pending = FALSE
    /\ app = NewMainApp

\* one iteration of BalloonPopGame.run whose camera read fails: continue
BalloonFrameSkipped ==
    /\ pc = "balloon"
    /\ ~game.game_over
    /\ n_calls < MaxFrames
    /\ n_calls' = n_calls + 1
    /\ op' = [op EXCEPT !.name = "balloon_read_failed", !.tracked = None]
    /\ UNCHANGED <<pc, now, game, hand_tracker, was_pinching, frames_seen, edges,
                   smoothness, consistency, session_data,
                   calibration_screen, calibration_result,
                   angles, quit_pending, app>>

\* one iteration of BalloonPopGame.run with a frame read.  Balloon geometry is
\* reduced to what the counters depend on: spawn (random.randint(1, 15) == 1),
\* floated_off (a balloon left through the top) and hit (pinch_pos lies in a
\* balloon that is on screen).  The clock is read once per frame: the reading
\* track_pinch_event takes equals the one _track_hand_data took.
BalloonFrame ==
    /\ pc = "balloon"
    /\ ~game.game_over
    /\ n_calls < MaxFrames
    /\ \E lm_list \in SessionSnapshots, spawn \in BOOLEAN,
          floated_off \in BOOLEAN, hit \in BOOLEAN :
          LET frame_time == now + 1
              quit == quit_pending
              tracked == _track_hand_data(game, lm_list, frame_time)
              spawned == IF spawn /\ game.balloons < MaxBalloons
                         THEN game.balloons + 1 ELSE game.balloons
              threshold == game.calibration_data.pinch_threshold
              g == get_pinch_gesture(lm_list, threshold)
              is_pinching == g[1]
              left == IF floated_off /\ spawned > 0 THEN spawned - 1 ELSE spawned
              balloon_popped == is_pinching /\ hit /\ left > 0
              current_time == frame_time
              game1 == [tracked EXCEPT
                           !.game_over = quit,
                           !.balloons = IF balloon_popped THEN left - 1 ELSE left,
                           !.score = IF balloon_popped THEN @ + 1 ELSE @]
          IN  /\ (hit => is_pinching /\ left > 0)
              /\ (floated_off => spawned > 0)
              /\ game' = IF is_pinching
                         THEN track_pinch_event(game1, lm_list, balloon_popped, current_time)
                         ELSE game1
              /\ now' = current_time
              /\ edges' = SeeEdges(edges, is_pinching, op.is_pinching)
              /\ op' = Call("balloon_frame", lm_list, balloon_popped, now', threshold, g,
                            IF is_pinching THEN TrackedGesture(game1, lm_list) ELSE None)
    /\ quit_pending' = FALSE
    /\ n_calls' = n_calls + 1
    /\ UNCHANGED <<pc, hand_tracker, was_pinching, frames_seen, smoothness, consistency, session_data,
                   calibration_screen, calibration_result, angles, app>>

\* BalloonPopGame.show_game_over_screen: a click returns to run, which returns
\* the session data; closing the window ends the process
BalloonGameOver ==
    /\ pc = "balloon"
    /\ game.game_over
    /\ \E event \in {"MOUSEBUTTONDOWN", "QUIT"} :
          /\ pc' = IF event = "QUIT" THEN "exited" ELSE "returned"
          /\ op' = Call("balloon_game_over", NoHand, FALSE, now, 0, NoGesture, None)
    /\ UNCHANGED <<now, n_calls, game, hand_tracker, was_pinching, frames_seen, edges,
                   smoothness, consistency, session_data,
                   calibration_screen, calibration_result,
                   angles, quit_pending, app>>

\* one iteration of the waiting loop of BaseGame.show_game_over_screen
GameOverScreenFrame ==
    /\ pc = "game_over_screen"
    /\ n_calls < MaxFrames
    /\ \E success \in BOOLEAN, lm_list \in SessionSnapshots,
          event \in {"none", "QUIT", "KEYDOWN"} :
          LET threshold == GameOverPinchThreshold(game)
              g == get_pinch_gesture(lm_list, threshold)
              is_pinching == g[1]
              closed_by_pinch == success /\ is_pinching /\ ~was_pinching
              waiting == ~closed_by_pinch /\ event = "none"
          IN  /\ (~success => lm_list = NoHand)
              /\ was_pinching' = IF success THEN is_pinching ELSE was_pinching
              /\ game' = [game EXCEPT !.game_over = IF event = "QUIT" THEN TRUE ELSE @]
              /\ pc' = IF waiting THEN "game_over_screen" ELSE "returned"
              /\ frames_seen' = IF success THEN Append(frames_seen, ObservedGap(lm_list))
                                ELSE frames_seen
              /\ op' = (IF success
                        THEN Call("game_over_frame", lm_list, FALSE, now, threshold, g, None)
                        ELSE Call("game_over_read_failed", NoHand, FALSE, now, 0, NoGesture, None))
                       @@ [event |-> event]
    /\ n_calls' = n_calls + 1
    /\ UNCHANGED <<now, hand_tracker, edges, smoothness, consistency, session_data,
                   calibration_screen, calibration_result,
                   angles, quit_pending, app>>

NextEdges ==
    \/ QuitRequested
    \/ DinoFrameSkipped \/ DinoFrame \/ DinoGameOver \/ MenuFrameSkipped \/ MenuFrame
    \/ GameOverScreenFrame \/ SaveSession

SpecEdges == InitEdges /\ [][NextEdges]_vars

NextSession ==
    \/ QuitRequested
    \/ BalloonFrameSkipped \/ BalloonFrame \/ BalloonGameOver \/ GameOverScreenFrame
    \/ SaveSession

SpecSession == InitSession /\ [][NextSession]_vars

(***************************************************************************)
(* BaseGame.calculate_movement_smoothness on a given speed history         *)
(***************************************************************************)
TooFewSpeeds_Two(n) == n < 2

TooFewSpeeds(n) == n < 3

calculate_movement_smoothness(self) ==
    LET speeds == self.hand_movement_data.movement_speeds
        speed_changes == [i \in 1..(Len(speeds) - 1) |-> 
                             LET change == RSub(speeds[i + 1], speeds[i])
                             IN  <<Abs(change[1]), change[2]>>]
        avg_speed_change == RDiv(RSum(speed_changes), RInt(Len(speed_changes)))
        avg_speed == RDiv(RSum(speeds), RInt(Len(speeds)))
        smooth == IF RLess(RInt(0), avg_speed)
                  THEN RMax(RInt(0),
                            RSub(RInt(100), RMul(RDiv(avg_speed_change, avg_speed), RInt(100))))
                  ELSE RInt(0)
    IN  IF TooFewSpeeds(Len(speeds)) THEN RInt(0)
        ELSE IF speed_changes = << >> THEN RInt(0)
        ELSE Round2(smooth)

RECURSIVE SeqsUpTo(_, _)
SeqsUpTo(S, n) ==
    IF n = 0 THEN {<< >>}
    ELSE LET shorter == SeqsUpTo(S, n - 1)
         IN  shorter \cup {Append(q, x) : q \in shorter, x \in S}

\* speed histories of up to MaxSpeeds whole speeds 0..MaxSpeed, and the
\* histories of 10 equal positive speeds
SpeedHistories ==
    SeqsUpTo({RInt(v) : v \in 0..MaxSpeed}, MaxSpeeds)
    \cup {[i \in 1..10 |-> RInt(v)] : v \in 1..MaxSpeed}

InitSmooth ==
    /\ pc = "smooth_api"
    /\ now = 0
    /\ n_calls = 0
    /\ op = NoOp
    /\ \E speeds \in SpeedHistories :
          game = [NewGame(None, 0) EXCEPT !.hand_movement_data.movement_speeds = speeds]
    /\ hand_tracker = NewHandTracker
    /\ was_pinching = FALSE
    /\ frames_seen = << >>
    /\ edges = [rising |-> 0, falling |-> 0]
    /\ smoothness = None
    /\ consistency = None
    /\ session_data = None
    /\ calibration_screen = None
    /\ calibration_result = None
    /\ angles = None
    /\ quit_pending = FALSE
    /\ app = NewMainApp

CalculateMovementSmoothnessCall ==
    /\ pc = "smooth_api"
    /\ smoothness = None
    /\ smoothness' = <<calculate_movement_smoothness(game)>>
    /\ op' = [op EXCEPT !.name = "calculate_movement_smoothness"]
    /\ UNCHANGED <<pc, now, n_calls, game, hand_tracker, was_pinching, frames_seen, edges,
                   consistency, session_data,
                   calibration_screen, calibration_result,
                   angles, quit_pending, app>>

NextSmooth == CalculateMovementSmoothnessCall

SpecSmooth == InitSmooth /\ [][NextSmooth]_vars

(***************************************************************************)
(* BaseGame._calculate_pinch_consistency and get_enhanced_session_data     *)
(***************************************************************************)
\* round(x, 3) for x >= 0: nearest thousandth, ties to the even thousandth
Round3(x) ==
    LET n == x[1] * 1000
        q == n \div x[2]
        r == n % x[2]
        h == IF 2 * r < x[2] THEN q
             ELSE IF 2 * r > x[2] THEN q + 1
             ELSE IF q % 2 = 0 THEN q ELSE q + 1
    IN  Rat(h, 1000)

\* a list of whole numbers as floats
Rats(s) == [i \in 1..Len(s) |-> RInt(s[i])]

\* math.sqrt of a rational in lowest terms: exact when it is the square of a
\* rational, otherwise rounded down to a multiple of 1 / denominator
SqrtRat(v) == Rat(Sqrt(v[1] * v[2]), v[2])

TooFewDistances_One(n) == n < 1

TooFewDistances(n) == n < 2

_calculate_pinch_consistency(self) ==
    LET distances == Rats(self.pinch_data.pinch_distances)
        n == Len(distances)
        mean_distance == RDiv(RSum(distances), RInt(n))
        variance ==
            RDiv(RSum([i \in 1..n |-> RMul(RSub(distances[i], mean_distance),
                                          RSub(distances[i], mean_distance))]),
                 RInt(n))
        std_dev == SqrtRat(variance)
        score == RMax(RInt(0),
                      RSub(RInt(100), RMul(RDiv(std_dev, mean_distance), RInt(100))))
    IN  IF TooFewDistances(n) THEN RInt(0)
        ELSE IF mean_distance = RInt(0) THEN RInt(0)
        ELSE Round2(score)

\* successful / attempts * 100 and the like, 0 when the count is 0
Percentage_Fraction(part, whole) == IF whole > 0 THEN Rat(part, whole) ELSE RInt(0)

Percentage(part, whole) ==
    IF whole > 0 THEN RMul(Rat(part, whole), RInt(100)) ELSE RInt(0)

Average_DefaultOne(history) ==
    IF history # << >> THEN RDiv(RSum(history), RInt(Len(history))) ELSE RInt(1)

\* sum(history) / len(history) of a list of floats, 0 when it is empty
Average(history) ==
    IF history # << >> THEN RDiv(RSum(history), RInt(Len(history))) ELSE RInt(0)

\* the dict get_enhanced_session_data returns when time.time() reads current_time
get_enhanced_session_data(self, current_time) ==
    LET hm == self.hand_movement_data
        pd == self.pinch_data
        session_duration == RInt(current_time - self.session_start_time)
        hand_detection_rate == Percentage(hm.hand_detected_frames, hm.total_frames)
        avg_movement_speed == Average(hm.movement_speeds)
        total_movement_distance ==
            IF hm.movement_speeds # << >> THEN RSum(Rats(hm.movement_distances)) ELSE RInt(0)
        pinch_success_rate == Percentage(pd.successful_pinches, pd.total_pinch_attempts)
        avg_pinch_distance == Average(Rats(pd.pinch_distances))
        avg_pinch_duration == Average(Rats(pd.pinch_durations))
        avg_time_between_pinches == Average(Rats(pd.pinch_timing))
        interaction_effectiveness == Percentage(hm.successful_interactions, hm.total_movements)
    IN  [session_metadata |->
            [duration_seconds |-> Round2(session_duration),
             total_frames |-> hm.total_frames,
             hand_detection_rate |-> Round2(hand_detection_rate)],
         hand_movement_analytics |->
            [total_movements |-> hm.total_movements,
             successful_interactions |-> hm.successful_interactions,
             interaction_effectiveness |-> Round2(interaction_effectiveness),
             avg_movement_speed |-> Round2(avg_movement_speed),
             total_movement_distance |-> Round2(total_movement_distance),
             movement_smoothness_score |-> calculate_movement_smoothness(self),
             tracking_lost_count |-> hm.tracking_lost_count],
         pinch_analytics |->
            [total_pinch_attempts |-> pd.total_pinch_attempts,
             successful_pinches |-> pd.successful_pinches,
             failed_pinches |-> pd.failed_pinches,
             pinch_success_rate |-> Round2(pinch_success_rate),
             avg_pinch_distance |-> Round2(avg_pinch_distance),
             avg_pinch_duration |-> Round3(avg_pinch_duration),
             avg_time_between_pinches |-> Round2(avg_time_between_pinches),
             pinch_consistency |-> _calculate_pinch_consistency(self)]]

(***************************************************************************)
(* A session seen from its accumulators: frames go through                 *)
(* _track_hand_data, some are forwarded to track_pinch_event, and          *)
(* get_enhanced_session_data is read at any point                          *)
(***************************************************************************)
MaxDataFrames == 3     \* frames of such a session per behaviour

\* no hand, and full hands at tip distance 30 (index tip at rest or 4 px
\* away) and 40
DataSnapshots ==
    {NoHand} \cup FullSnapshots({<<100, 100>>, <<100, 104>>}, {<<18, 24>>})
    \cup FullSnapshots({<<100, 100>>}, {<<24, 32>>})

\* self after a pinch (tips 30 apart) at clock reading t that is released
\* (tips 40 apart) at t + 1
PinchCycle(self, was_successful, t) ==
    track_pinch_event(track_pinch_event(self, LmList(21, <<118, 124>>, <<100, 100>>),
                                        was_successful, t),
                      LmList(21, <<124, 132>>, <<100, 100>>), FALSE, t + 1)

\* self after s successful and then f failed pinches, the first one at t + 1
RECURSIVE AfterPinchCycles(_, _, _, _)
AfterPinchCycles(self, s, f, t) ==
    IF s > 0 THEN AfterPinchCycles(PinchCycle(self, TRUE, t + 1), s - 1, f, t + 2)
    ELSE IF f > 0 THEN AfterPinchCycles(PinchCycle(self, FALSE, t + 1), s, f - 1, t + 2)
    ELSE self

InitData ==
    /\ pc = "data_api"
    /\ n_calls = 0
    /\ op = NoOp
    \* k: the pinches <<successful, failed>> already made when observation starts
    /\ \E k \in {<<0, 0>>, <<1, 2>>, <<7, 3>>} :
          /\ game = AfterPinchCycles(NewGame(None, 0), k[1], k[2], 0)
          /\ now = 2 * (k[1] + k[2])
    /\ hand_tracker = NewHandTracker
    /\ was_pinching = FALSE
    /\ frames_seen = << >>
    /\ edges = [rising |-> 0, falling |-> 0]
    /\ smoothness = None
    /\ consistency = None
    /\ session_data = None
    /\ calibration_screen = None
    /\ calibration_result = None
    /\ angles = None
    /\ quit_pending = FALSE
    /\ app = NewMainApp

\* display_camera_feed on one frame, followed or not by track_pinch_event on
\* the same snapshot
DataFrame ==
    /\ pc = "data_api"
    /\ n_calls < MaxDataFrames
    /\ \E lm_list \in DataSnapshots, forward \in BOOLEAN, was_successful \in BOOLEAN :
          LET current_time == now + 1
              tracked == _track_hand_data(game, lm_list, current_time)
          IN  /\ (was_successful => forward)
              /\ game' = IF forward
                         THEN track_pinch_event(tracked, lm_list, was_successful, current_time)
                         ELSE tracked
              /\ now' = current_time
              /\ op' = Call("data_frame", lm_list, was_successful, current_time,
                            DefaultPinchThreshold,
                            get_pinch_gesture(lm_list, DefaultPinchThreshold),
                            IF forward THEN TrackedGesture(tracked, lm_list) ELSE None)
    /\ n_calls' = n_calls + 1
    /\ UNCHANGED <<pc, hand_tracker, was_pinching, frames_seen, edges, smoothness,
                   consistency, session_data,
                   calibration_screen, calibration_result,
                   angles, quit_pending, app>>

\* the session stops here, after any number of frames, and its data is read
GetEnhancedSessionDataCall ==
    /\ pc = "data_api"
    /\ pc' = "data_read"
    /\ \E dt \in {0, 1} :
          /\ now' = now + dt
          /\ session_data' = get_enhanced_session_data(game, now + dt)
    /\ op' = [op EXCEPT !.name = "get_enhanced_session_data"]
    /\ UNCHANGED <<n_calls, game, hand_tracker, was_pinching, frames_seen, edges,
                   smoothness, consistency, calibration_screen, calibration_result,
                   angles, quit_pending, app>>

NextData == DataFrame \/ GetEnhancedSessionDataCall

SpecData == InitData /\ [][NextData]_vars

(***************************************************************************)
(* BaseGame._calculate_pinch_consistency on a given distance history       *)
(***************************************************************************)
MaxDistance == 4       \* largest pinch distance in a history given to the score

\* pinch distance histories: up to 2 whole distances 0..MaxDistance, 3 equal
\* ones, 2 + 2 equal ones, and 3 zeros followed by a positive one (standard
\* deviation above the mean).  On all of them the variance is the square of a
\* rational, except the last kind, whose score is 0 at any precision.
DistanceHistories ==
    SeqsUpTo(0..MaxDistance, 2)
    \cup {<<a, a, a>> : a \in 0..MaxDistance}
    \cup {<<a, a, b, b>> : a \in 0..MaxDistance, b \in 0..MaxDistance}
    \cup {<<0, 0, 0, b>> : b \in 1..MaxDistance}

InitConsistency ==
    /\ pc = "consistency_api"
    /\ now = 0
    /\ n_calls = 0
    /\ op = NoOp
    /\ \E distances \in DistanceHistories :
          game = [NewGame(None, 0) EXCEPT !.pinch_data.pinch_distances = distances]
    /\ hand_tracker = NewHandTracker
    /\ was_pinching = FALSE
    /\ frames_seen = << >>
    /\ edges = [rising |-> 0, falling |-> 0]
    /\ smoothness = None
    /\ consistency = None
    /\ session_data = None
    /\ calibration_screen = None
    /\ calibration_result = None
    /\ angles = None
    /\ quit_pending = FALSE
    /\ app = NewMainApp

CalculatePinchConsistencyCall ==
    /\ pc = "consistency_api"
    /\ consistency = None
    /\ consistency' = <<_calculate_pinch_consistency(game)>>
    /\ op' = [op EXCEPT !.name = "_calculate_pinch_consistency"]
    /\ UNCHANGED <<pc, now, n_calls, game, hand_tracker, was_pinching, frames_seen, edges,
                   smoothness, session_data,
                   calibration_screen, calibration_result,
                   angles, quit_pending, app>>

NextConsistency == CalculatePinchConsistencyCall

SpecConsistency == InitConsistency /\ [][NextConsistency]_vars

(***************************************************************************)
(* CalibrationScreen                                                       *)
(***************************************************************************)
Duration == 8          \* self.duration, in seconds

\* CalibrationScreen.__init__ when pygame.time.get_ticks() reads t (the
\* model's clock counts whole seconds)
NewCalibrationScreen(t) ==
    [duration |-> Duration, start_time |-> t, pinch_distances |-> << >>,
     hand_positions |-> << >>]

get_hand_position(lm_list) ==
    IF Len(lm_list) >= 10 THEN <<At(lm_list, 9)[2], At(lm_list, 9)[3]>> ELSE <<0, 0>>

\* sorted(): every sample goes to the place given by the number of samples
\* that sort before it (smaller ones, and equal ones that came earlier)
SortedPlace(s, i) ==
    Cardinality({j \in 1..Len(s) : s[j] < s[i] \/ (s[j] = s[i] /\ j < i)}) + 1

sorted(s) == [k \in 1..Len(s) |-> s[CHOOSE i \in 1..Len(s) : SortedPlace(s, i) = k]]

\* the lengths n < 400 at which the double product n * 0.7 is below the whole
\* number 7n / 10 (0.7 is stored as 0.69999999999999995...; 90 * 0.7 is
\* 62.99999999999999), so that int() truncates to one less
FloatShortfalls == {90, 170, 180, 330, 340, 350, 360}

\* int(len(sorted_distances) * 0.7)
PercentileIndex(n) ==
    IF n \in FloatShortfalls THEN (7 * n) \div 10 - 1 ELSE (7 * n) \div 10

MaxOf(S) == CHOOSE x \in S : \A y \in S : y <= x
MinOf(S) == CHOOSE x \in S : \A y \in S : x <= y

\* the dict _calculate_calibration returns
_calculate_calibration(self) ==
    IF self.pinch_distances = << >>
    THEN [pinch_threshold |-> RInt(40), sensitivity |-> RInt(1)]
    ELSE
    LET sorted_distances == sorted(self.pinch_distances)
        percentile_70_index == PercentileIndex(Len(sorted_distances))
        percentile == IF percentile_70_index < Len(sorted_distances)
                      THEN RInt(sorted_distances[percentile_70_index + 1]) ELSE RInt(40)
        scaled == RMul(percentile, Rat(12, 10))
        pinch_threshold == IF RLess(RInt(60), scaled) THEN RInt(60) ELSE scaled
        x_positions == {self.hand_positions[i][1] : i \in 1..Len(self.hand_positions)}
        y_positions == {self.hand_positions[i][2] : i \in 1..Len(self.hand_positions)}
        x_range == MaxOf(x_positions) - MinOf(x_positions)
        y_range == MaxOf(y_positions) - MinOf(y_positions)
        avg_range == Rat(x_range + y_range, 2)
        sensitivity == IF self.hand_positions # << >>
                       THEN (IF RLess(avg_range, RInt(100)) THEN Rat(15, 10) ELSE RInt(1))
                       ELSE RInt(1)
    IN  [pinch_threshold |-> pinch_threshold, sensitivity |-> sensitivity]

(***************************************************************************)
(* _calculate_calibration on given samples                                 *)
(***************************************************************************)
MaxSamples == 3        \* longest freely chosen sample list

Repeat(x, n) == [i \in 1..n |-> x]

\* sampled distances: up to MaxSamples of 10, 50 and 55 px in any order, and
\* the longer runs 30 x 10 then 70 x 50, 70 x 50 then 30 x 10, and
\* 63 x 10 then 27 x 50
DistanceSamples ==
    SeqsUpTo({10, 50, 55}, MaxSamples)
    \cup {Repeat(10, 30) \o Repeat(50, 70), Repeat(50, 70) \o Repeat(10, 30),
          Repeat(10, 63) \o Repeat(50, 27)}

PositionSamples(n, spread) ==
    [i \in 1..n |-> IF i = 1 THEN <<300, 200>> ELSE <<300 + spread[1], 200 + spread[2]>>]

InitCalculate ==
    /\ pc = "calculate_api"
    /\ now = 0
    /\ n_calls = 0
    /\ op = NoOp
    /\ game = NewGame(None, 0)
    /\ hand_tracker = NewHandTracker
    /\ was_pinching = FALSE
    /\ frames_seen = << >>
    /\ edges = [rising |-> 0, falling |-> 0]
    /\ smoothness = None
    /\ consistency = None
    /\ session_data = None
    /\ \E distances \in DistanceSamples,
          \* spread: how far the hand moved between the first sample and the later ones
          spread \in {<<0, 0>>, <<100, 99>>, <<100, 100>>, <<250, 10>>} :
          calibration_screen =
              [NewCalibrationScreen(0) EXCEPT
                  !.pinch_distances = distances,
                  !.hand_positions = PositionSamples(Len(distances), spread)]
    /\ calibration_result = None
    /\ angles = None
    /\ quit_pending = FALSE
    /\ app = NewMainApp

CalculateCalibrationCall ==
    /\ pc = "calculate_api"
    /\ calibration_result = None
    /\ calibration_result' = _calculate_calibration(calibration_screen)
    /\ op' = [op EXCEPT !.name = "_calculate_calibration"]
    /\ UNCHANGED <<pc, now, n_calls, game, hand_tracker, was_pinching, frames_seen, edges,
                   smoothness, consistency, session_data, calibration_screen,
                   angles, quit_pending, app>>

NextCalculate == CalculateCalibrationCall

SpecCalculate == InitCalculate /\ [][NextCalculate]_vars

(***************************************************************************)
(* CalibrationScreen.run                                                   *)
(***************************************************************************)
MaxClock == 9          \* the clock is followed up to this reading
MaxCalibFrames == 3    \* loop iterations inside the window per behaviour

\* no hand, 8 landmarks, 9 landmarks (both tips, no landmark 9) and a full
\* hand, the tips 30 px apart
CalibSnapshots ==
    {NoHand, LmList(9, <<118, 124>>, <<100, 100>>), LmList(21, <<118, 124>>, <<100, 100>>)}
    \cup PartialSnapshots

WindowExpired_Never(remaining) == FALSE

WindowExpired(remaining) == remaining <= 0

\* remaining = max(0, self.duration - elapsed) when the clock reads t
Remaining(self, t) ==
    LET elapsed == t - self.start_time
    IN  IF self.duration - elapsed > 0 THEN self.duration - elapsed ELSE 0

SamplesTaken(self, lm_list) ==
    IF Len(lm_list) >= 9
    THEN [self EXCEPT
             !.pinch_distances = Append(@, calculate_distance(At(lm_list, 4), At(lm_list, 8))),
             !.hand_positions = Append(@, get_hand_position(lm_list))]
    ELSE self

InitCalibration ==
    /\ pc = "calibrating"
    /\ now = 0
    /\ n_calls = 0
    /\ op = NoOp
    /\ game = NewGame(None, 0)
    /\ hand_tracker = NewHandTracker
    /\ was_pinching = FALSE
    /\ frames_seen = << >>
    /\ edges = [rising |-> 0, falling |-> 0]
    /\ smoothness = None
    /\ consistency = None
    /\ session_data = None
    /\ calibration_screen = NewCalibrationScreen(0)
    /\ calibration_result = None
    /\ angles = None
    /\ quit_pending = FALSE
    /\ app = NewMainApp

\* time passes while the loop runs
ClockAdvance ==
    /\ pc = "calibrating"
    /\ now < MaxClock
    /\ now' = now + 1
    /\ UNCHANGED <<pc, n_calls, op, game, hand_tracker, was_pinching, frames_seen, edges,
                   smoothness, consistency, session_data, calibration_screen,
                   calibration_result,
                   angles, quit_pending, app>>

\* an iteration that finds the window expired: break, return the result
CalibrationExpired ==
    /\ pc = "calibrating"
    /\ WindowExpired(Remaining(calibration_screen, now))
    /\ pc' = "calibrated"
    /\ calibration_result' = _calculate_calibration(calibration_screen)
    /\ op' = Call("calibration_expired", NoHand, FALSE, now, 0, NoGesture, None)
    /\ UNCHANGED <<now, n_calls, game, hand_tracker, was_pinching, frames_seen, edges,
                   smoothness, consistency, session_data, calibration_screen,
                   angles, quit_pending, app>>

\* an iteration inside the window whose camera read fails: continue
CalibrationFrameSkipped ==
    /\ pc = "calibrating"
    /\ ~WindowExpired(Remaining(calibration_screen, now))
    /\ n_calls < MaxCalibFrames
    /\ n_calls' = n_calls + 1
    /\ op' = Call("calibration_read_failed", NoHand, FALSE, now, 0, NoGesture, None)
    /\ UNCHANGED <<pc, now, game, hand_tracker, was_pinching, frames_seen, edges,
                   smoothness, consistency, session_data, calibration_screen,
                   calibration_result,
                   angles, quit_pending, app>>

\* an iteration inside the window with a frame read: sample, draw, then the
\* event queue (QUIT returns the result at once)
CalibrationFrame ==
    /\ pc = "calibrating"
    /\ ~WindowExpired(Remaining(calibration_screen, now))
    /\ n_calls < MaxCalibFrames
    /\ \E lm_list \in CalibSnapshots, quit \in BOOLEAN :
          LET sampled == SamplesTaken(calibration_screen, lm_list)
          IN  /\ calibration_screen' = sampled
              /\ pc' = IF quit THEN "calibrated" ELSE "calibrating"
              /\ calibration_result' =
                    IF quit THEN _calculate_calibration(sampled) ELSE calibration_result
              /\ op' = Call("calibration_frame", lm_list, FALSE, now, 0, NoGesture, None)
    /\ n_calls' = n_calls + 1
    /\ UNCHANGED <<now, game, hand_tracker, was_pinching, frames_seen, edges,
                   smoothness, consistency, session_data,
                   angles, quit_pending, app>>

CalibrationLoop == CalibrationExpired \/ CalibrationFrameSkipped \/ CalibrationFrame

NextCalibration == ClockAdvance \/ CalibrationLoop

\* the loop keeps iterating and the clock keeps advancing
SpecCalibration ==
    /\ InitCalibration
    /\ [][NextCalibration]_vars
    /\ WF_vars(CalibrationLoop)
    /\ WF_vars(ClockAdvance)

(***************************************************************************)
(* Joint angle: HandTracker.calculate_angle, and the older HandTracker     *)
(* followed by the reflection of the older AngleMasterGame                 *)
(***************************************************************************)
\* math.degrees(math.atan2(dy, dx)) on the vectors used here: the zero
\* vector and the multiples of the 8 compass directions
Atan2Degrees(dy, dx) ==
    IF dy = 0 THEN (IF dx >= 0 THEN 0 ELSE 180)
    ELSE IF dx = 0 THEN (IF dy > 0 THEN 90 ELSE -90)
    ELSE IF dy > 0 THEN (IF dx > 0 THEN 45 ELSE 135)
    ELSE (IF dx > 0 THEN -45 ELSE -135)

ReflectAbove180_Never(angle) == angle

ReflectAbove180(angle) == IF angle > 180 THEN 360 - angle ELSE angle

\* rehab_gamification HandTracker.calculate_angle on points [id, x, y]
calculate_angle(p1, p2, p3) ==
    LET x1 == p1[2]
        y1 == p1[3]
        x2 == p2[2]
        y2 == p2[3]
        x3 == p3[2]
        y3 == p3[3]
        angle == Atan2Degrees(y3 - y2, x3 - x2) - Atan2Degrees(y1 - y2, x1 - x2)
        positive == IF angle < 0 THEN angle + 360 ELSE angle
    IN  ReflectAbove180(positive)

\* src/hand_tracking HandTracker.calculate_angle on points (x, y)
older_calculate_angle(p1, p2, p3) ==
    LET ang == Atan2Degrees(p3[2] - p2[2], p3[1] - p2[1])
               - Atan2Degrees(p1[2] - p2[2], p1[1] - p2[1])
    IN  IF ang < 0 THEN ang + 360 ELSE ang

\* src/games AngleMasterGame.run: landmarks[i][1:], calculate_angle, then the flip
older_current_angle(l5, l6, l7) ==
    LET p1 == <<l5[2], l5[3]>>
        p2 == <<l6[2], l6[3]>>
        p3 == <<l7[2], l7[3]>>
        current_angle == older_calculate_angle(p1, p2, p3)
    IN  IF current_angle > 180 THEN 360 - current_angle ELSE current_angle

\* the 8 compass directions and the zero vector (two landmarks on one pixel)
Directions ==
    {<<dx, dy>> : dx \in {-1, 0, 1}, dy \in {-1, 0, 1}}
BoneLengths == {10, 20}

InitAngle == InitApi("angle_api")

\* a frame whose landmarks 5, 6 and 7 go through both angle computations
CalculateAngleCall ==
    /\ pc = "angle_api"
    /\ \E v \in {<<200, 200>>, <<50, 300>>}, d1 \in Directions, d3 \in Directions, k1 \in BoneLengths,
          k3 \in BoneLengths :
          LET l5 == <<5, v[1] + k1 * d1[1], v[2] + k1 * d1[2]>>
              l6 == <<6, v[1], v[2]>>
              l7 == <<7, v[1] + k3 * d3[1], v[2] + k3 * d3[2]>>
          IN  angles' = [p1 |-> l5, p2 |-> l6, p3 |-> l7,
                         raw |-> Atan2Degrees(l7[3] - l6[3], l7[2] - l6[2])
                                 - Atan2Degrees(l5[3] - l6[3], l5[2] - l6[2]),
                         current_angle |-> calculate_angle(l5, l6, l7),
                         older |-> older_current_angle(l5, l6, l7)]
    /\ op' = [op EXCEPT !.name = "calculate_angle"]
    /\ UNCHANGED <<pc, now, n_calls, game, hand_tracker, was_pinching, frames_seen, edges,
                   smoothness, consistency, session_data, calibration_screen,
                   calibration_result, quit_pending, app>>

NextAngle == CalculateAngleCall

SpecAngle == InitAngle /\ [][NextAngle]_vars

(***************************************************************************)
(* The loops of AngleMasterGame, MazeGame and FingerPainterGame            *)
(***************************************************************************)
MaxGameFrames == 3     \* loop iterations of such a game per behaviour

\* no hand, hands of 5 and of 8 landmarks, and full hands whose index finger
\* is straight (joints 5, 6, 7 in line) or bent by 45 degrees at joint 6
AngleSnapshots ==
    LET hand == LmList(21, <<118, 124>>, <<100, 100>>)
    IN  {NoHand, LmList(5, <<118, 124>>, <<100, 100>>)} \cup PartialSnapshots
        \cup {[hand EXCEPT ![6] = <<5, 110, 100>>, ![7] = <<6, 100, 100>>,
                           ![8] = <<7, p3[1], p3[2]>>] : p3 \in {<<90, 100>>, <<110, 110>>}}

\* no hand, a hand of 8 landmarks, and full hands with the index tip on the
\* start cell, in the corridor next to it, on a wall and on the end cell
MazeSnapshots ==
    {NoHand} \cup PartialSnapshots
    \cup FullSnapshots({<<438, 158>>, <<495, 158>>, <<380, 100>>, <<840, 560>>}, {<<18, 24>>})

\* no hand, a hand of 8 landmarks, and full hands at two cursor positions
PainterSnapshots ==
    {NoHand} \cup PartialSnapshots
    \cup FullSnapshots({<<100, 100>>, <<100, 104>>}, {<<18, 24>>})

\* ---- AngleMasterGame ----
HoldDurationGoal == 120

\* the hold is complete: hold_time has reached hold_duration_goal
HoldComplete_OneShort(hold_time) == hold_time + 1 >= HoldDurationGoal

HoldComplete(hold_time) == hold_time >= HoldDurationGoal
\* targets random.randint(45, 160) may draw
TargetAngles == {45, 100}

\* AngleMasterGame.__init__ (the speed and pinch-distance logs, max_angle and
\* feedback_text, which no decision reads, are left out)
NewAngleMasterGame(calibration, t, target) ==
    NewGame(calibration, t)
    @@ [target_angle |-> target, current_angle |-> 0, hold_time |-> 0,
        achieved_angles |-> << >>, target_angles |-> << >>]

\* a full hand whose index finger makes the angle 45 at landmark 6
HeldSnapshot ==
    [LmList(21, <<118, 124>>, <<100, 100>>) EXCEPT
        ![6] = <<5, 110, 100>>, ![7] = <<6, 100, 100>>, ![8] = <<7, 110, 110>>]

\* the game after `held` frames, one per clock tick from its construction at
\* 0, that all showed HeldSnapshot while the target was 45 (held below the
\* goal): the hand never moved, so only the frame counters, the last position
\* and hold_time have changed
AngleMasterAfterHeld(calibration, held) ==
    LET new == NewAngleMasterGame(calibration, 0, 45)
    IN  IF held = 0 THEN new
        ELSE [new EXCEPT
                 !.hold_time = held,
                 !.current_angle = 45,
                 !.hand_movement_data =
                     [@ EXCEPT !.total_frames = held,
                               !.hand_detected_frames = held,
                               !.hand_positions = <<<<100, 100, held>>>>],
                 !.last_hand_position = <<100, 100>>,
                 !.was_hand_detected_last_frame = TRUE,
                 !.last_frame_time = held]

\* what a frame shows of the finger: the distance of its angle from the
\* target, or -1 when the frame has no hand
ObservedAngleGap(lm_list, target) ==
    IF Len(lm_list) >= 8
    THEN Abs(target - calculate_angle(lm_list[6], lm_list[7], lm_list[8]))
    ELSE -1

\* the body of one iteration of AngleMasterGame.run after a successful read:
\* self afterwards, and whether an IndexError left the loop
angle_master_frame(self, lm_list, current_time, next_target) ==
    LET tracked == _track_hand_data(self, lm_list, current_time)
    IN  IF Len(lm_list) = 0 THEN [self |-> tracked, raised |-> FALSE]
        ELSE IF Len(lm_list) < 9 THEN [self |-> tracked, raised |-> TRUE]
        ELSE
        LET current_angle == calculate_angle(At(lm_list, 5), At(lm_list, 6), At(lm_list, 7))
            angle_difference == Abs(tracked.target_angle - current_angle)
            held == angle_difference < 10
            award == held /\ HoldComplete(tracked.hold_time + 1)
        IN  [self |-> [tracked EXCEPT
                          !.current_angle = current_angle,
                          !.hold_time = IF held /\ ~award THEN @ + 1 ELSE 0,
                          !.score = IF award THEN @ + 100 ELSE @,
                          !.achieved_angles = IF award THEN Append(@, current_angle) ELSE @,
                          !.target_angles = IF award THEN Append(@, tracked.target_angle) ELSE @,
                          !.target_angle = IF award THEN next_target ELSE @],
             raised |-> FALSE]

\* one iteration of AngleMasterGame.run whose camera read fails: the event
\* queue has been handled before the read
AngleMasterFrameSkipped ==
    /\ pc = "angle_master"
    /\ ~game.game_over
    /\ n_calls < MaxGameFrames
    /\ game' = [game EXCEPT !.game_over = quit_pending]
    /\ quit_pending' = FALSE
    /\ n_calls' = n_calls + 1
    /\ op' = Call("angle_master_read_failed", NoHand, FALSE, now, 0, NoGesture, None)
    /\ UNCHANGED <<pc, now, hand_tracker, was_pinching, frames_seen, edges, smoothness,
                   consistency, session_data, calibration_screen, calibration_result, angles, app>>

\* one iteration of AngleMasterGame.run with a frame read
AngleMasterFrame ==
    /\ pc = "angle_master"
    /\ ~game.game_over
    /\ n_calls < MaxGameFrames
    /\ \E lm_list \in AngleSnapshots, next_target \in TargetAngles :
          LET current_time == now + 1
              r == angle_master_frame([game EXCEPT !.game_over = quit_pending],
                                      lm_list, current_time, next_target)
          IN  /\ game' = r.self
              /\ pc' = IF r.raised THEN "IndexError" ELSE pc
              /\ now' = current_time
              /\ op' = Call("angle_master_frame", lm_list, FALSE, current_time, 0,
                            NoGesture, None)
              /\ frames_seen' = Append(frames_seen,
                                        ObservedAngleGap(lm_list, game.target_angle))
    /\ quit_pending' = FALSE
    /\ n_calls' = n_calls + 1
    /\ UNCHANGED <<hand_tracker, was_pinching, edges, smoothness,
                   consistency, session_data, calibration_screen, calibration_result, angles, app>>

\* the loop is left and run returns get_session_data()
AngleMasterReturn ==
    /\ pc = "angle_master"
    /\ game.game_over
    /\ pc' = "returned"
    /\ op' = [op EXCEPT !.name = "angle_master_return"]
    /\ UNCHANGED <<now, n_calls, game, hand_tracker, was_pinching, frames_seen, edges,
                   smoothness, consistency, session_data, calibration_screen,
                   calibration_result, angles, quit_pending, app>>

\* ---- MazeGame ----
\* MAZE_LAYOUTS["easy_maze_1"]: 1 wall, 0 path, 2 start (S), 3 end (E)
MazeLayout ==
    << <<1, 1, 1, 1, 1, 1, 1, 1, 1, 1>>,
       <<1, 2, 0, 0, 0, 0, 0, 0, 0, 1>>,
       <<1, 1, 1, 1, 0, 1, 1, 1, 0, 1>>,
       <<1, 0, 0, 1, 0, 1, 0, 0, 0, 1>>,
       <<1, 0, 1, 1, 0, 1, 0, 1, 1, 1>>,
       <<1, 0, 1, 0, 0, 0, 0, 0, 0, 1>>,
       <<1, 0, 1, 0, 1, 1, 1, 0, 1, 1>>,
       <<1, 0, 0, 0, 0, 1, 0, 0, 0, 1>>,
       <<1, 1, 1, 1, 0, 1, 1, 1, 3, 1>>,
       <<1, 1, 1, 1, 1, 1, 1, 1, 1, 1>> >>

colliderect(a, b) ==
    /\ a.x < b.x + b.w
    /\ b.x < a.x + a.w
    /\ a.y < b.y + b.h
    /\ b.y < a.y + a.h

\* the pygame.Rect of maze cell (c_idx, r_idx) on the 1280 x 720 screen: cells
\* of 57.6 px from offset (352, 72), every float truncated by pygame.Rect
CellRect(c_idx, r_idx) ==
    [x |-> 352 + (c_idx * 576) \div 10, y |-> 72 + (r_idx * 576) \div 10, w |-> 57, h |-> 57]

\* player_rect: the square of side 2 * PLAYER_RADIUS around the player
PlayerRect(pos) == [x |-> pos[1] - 15, y |-> pos[2] - 15, w |-> 30, h |-> 30]

\* player_rect overlaps a cell of the given kind
OnCell(kind, pos) ==
    \E c_idx \in 0..9, r_idx \in 0..9 :
        /\ MazeLayout[r_idx + 1][c_idx + 1] = kind
        /\ colliderect(PlayerRect(pos), CellRect(c_idx, r_idx))

\* MazeGame.__init__; running is the local of run
NewMazeGame(calibration, t) ==
    NewGame(calibration, t)
    @@ [running |-> TRUE, game_active |-> FALSE, game_won |-> FALSE, wall_touches |-> 0,
        last_valid_player_pos |-> <<640, 360>>]

\* the body of one iteration of MazeGame.run after a successful read, up to
\* the drawing
maze_frame(self, lm_list) ==
    IF lm_list # << >> /\ ~self.game_won /\ Len(lm_list) < 9
    THEN [self |-> self, raised |-> TRUE]
    ELSE
    LET player_pos == IF lm_list # << >> /\ ~self.game_won
                      THEN <<At(lm_list, 8)[2], At(lm_list, 8)[3]>>
                      ELSE self.last_valid_player_pos
        touch == OnCell(1, player_pos) /\ self.game_active
        successful_movement == ~touch
        game_active == self.game_active \/ OnCell(2, player_pos)
        game_won == OnCell(3, player_pos) /\ game_active
    IN  IF self.game_won THEN [self |-> self, raised |-> FALSE]
        ELSE
        [self |-> [self EXCEPT
                      !.last_valid_player_pos = player_pos,
                      !.wall_touches = IF touch THEN @ + 1 ELSE @,
                      !.hand_movement_data =
                          [@ EXCEPT !.successful_interactions =
                                        IF lm_list # << >> /\ self.game_active
                                           /\ successful_movement
                                        THEN @ + 1 ELSE @],
                      !.game_active = game_active,
                      !.game_won = game_won],
         raised |-> FALSE]

\* one iteration of MazeGame.run whose camera read fails: the event queue has
\* been handled before the read
MazeFrameSkipped ==
    /\ pc = "maze"
    /\ game.running
    /\ n_calls < MaxGameFrames
    /\ game' = [game EXCEPT !.running = ~quit_pending]
    /\ quit_pending' = FALSE
    /\ n_calls' = n_calls + 1
    /\ op' = Call("maze_read_failed", NoHand, FALSE, now, 0, NoGesture, None)
    /\ UNCHANGED <<pc, now, hand_tracker, was_pinching, frames_seen, edges, smoothness,
                   consistency, session_data, calibration_screen, calibration_result, angles, app>>

\* one iteration of MazeGame.run with a frame read; when the maze is won the
\* iteration waits for a click or QUIT and then ends the loop
MazeFrame ==
    /\ pc = "maze"
    /\ game.running
    /\ n_calls < MaxGameFrames
    /\ \E lm_list \in MazeSnapshots :
          LET r == maze_frame([game EXCEPT !.running = ~quit_pending], lm_list)
          IN  /\ game' = IF r.self.game_won THEN [r.self EXCEPT !.running = FALSE] ELSE r.self
              /\ pc' = IF r.raised THEN "IndexError" ELSE pc
              /\ op' = Call("maze_frame", lm_list, FALSE, now, 0, NoGesture, None)
              /\ frames_seen' = Append(frames_seen, ObservedGap(lm_list))
    /\ quit_pending' = FALSE
    /\ n_calls' = n_calls + 1
    /\ UNCHANGED <<now, hand_tracker, was_pinching, edges, smoothness,
                   consistency, session_data, calibration_screen, calibration_result, angles, app>>

\* MazeGame.get_session_data: the metrics of the base class and the maze's own
\* (time_taken is left out)
MazeGame_get_session_data(self, current_time) ==
    LET total_movements == self.hand_movement_data.total_movements
        divisor == IF total_movements > 1 THEN total_movements ELSE 1
    IN  get_enhanced_session_data(self, current_time)
        @@ [game_specific_metrics |->
               [wall_touches |-> self.wall_touches,
                completed |-> self.game_won,
                navigation_accuracy |->
                    Round2(RMul(RSub(RInt(1), Rat(self.wall_touches, divisor)), RInt(100)))],
            game_name |-> "MazeGame"]

\* the loop is left: the camera is released and run returns the session data
MazeReturn ==
    /\ pc = "maze"
    /\ ~game.running
    /\ pc' = "returned"
    /\ app' = [app EXCEPT !.cap_is_opened = FALSE]
    /\ session_data' = MazeGame_get_session_data(game, now)
    /\ op' = [op EXCEPT !.name = "maze_return"]
    /\ UNCHANGED <<now, n_calls, game, hand_tracker, was_pinching, frames_seen, edges,
                   smoothness, consistency, calibration_screen, calibration_result,
                   angles, quit_pending>>

\* ---- FingerPainterGame ----
TargetsPerRound == 5

\* FingerPainterGame.__init__ (targets is the number of targets on screen; the
\* speed and pinch-distance logs and the drawing state are left out)
NewFingerPainterGame(calibration, t, timer) ==
    NewGame(calibration, t)
    @@ [timer |-> timer, targets |-> TargetsPerRound, targets_hit |-> 0,
        total_targets |-> TargetsPerRound, cursor_pos |-> <<0, 0>>]

\* the body of one iteration of FingerPainterGame.run after a successful read;
\* hits is the number of targets the cursor rectangle overlaps
finger_painter_frame(self, lm_list, current_time, hits) ==
    LET tracked == _track_hand_data(self, lm_list, current_time)
    IN  IF lm_list = << >>
        THEN [self |-> tracked, raised |-> FALSE]
        ELSE IF Len(lm_list) < 9 THEN [self |-> tracked, raised |-> TRUE]
        ELSE
        LET index_finger_tip == At(lm_list, 8)
            left == tracked.targets - hits
        IN  [self |-> [tracked EXCEPT
                          !.cursor_pos = <<index_finger_tip[2], index_finger_tip[3]>>,
                          !.score = @ + 10 * hits,
                          !.targets_hit = @ + hits,
                          !.targets = IF left = 0 THEN TargetsPerRound ELSE left,
                          !.total_targets = IF left = 0 THEN @ + TargetsPerRound ELSE @],
             raised |-> FALSE]

\* an iteration of FingerPainterGame.run that finds the timer at 0
FingerPainterTimeUp ==
    /\ pc = "finger_painter"
    /\ ~game.game_over
    /\ game.timer = 0
    /\ game' = [game EXCEPT !.game_over = TRUE]
    /\ op' = [op EXCEPT !.name = "finger_painter_time_up"]
    /\ UNCHANGED <<pc, now, n_calls, hand_tracker, was_pinching, frames_seen, edges,
                   smoothness, consistency, session_data, calibration_screen,
                   calibration_result, angles, quit_pending, app>>

\* an iteration of FingerPainterGame.run whose camera read fails, after the
\* timer (tick: a second has passed since last_tick) and the event queue have
\* been handled
FingerPainterFrameSkipped ==
    /\ pc = "finger_painter"
    /\ ~game.game_over
    /\ game.timer > 0
    /\ n_calls < MaxGameFrames
    /\ \E tick \in BOOLEAN :
          game' = [game EXCEPT !.timer = IF tick THEN @ - 1 ELSE @,
                               !.game_over = quit_pending]
    /\ quit_pending' = FALSE
    /\ n_calls' = n_calls + 1
    /\ op' = Call("finger_painter_read_failed", NoHand, FALSE, now, 0, NoGesture, None)
    /\ UNCHANGED <<pc, now, hand_tracker, was_pinching, frames_seen, edges,
                   smoothness, consistency, session_data, calibration_screen,
                   calibration_result, angles, app>>

\* one iteration of FingerPainterGame.run with a frame read
FingerPainterFrame ==
    /\ pc = "finger_painter"
    /\ ~game.game_over
    /\ game.timer > 0
    /\ n_calls < MaxGameFrames
    /\ \E lm_list \in PainterSnapshots, tick \in BOOLEAN, hits \in {0, 1, game.targets} :
          LET current_time == now + 1
              threshold == game.calibration_data.pinch_threshold
              g == get_pinch_gesture(lm_list, threshold)
              r == finger_painter_frame([game EXCEPT !.timer = IF tick THEN @ - 1 ELSE @,
                                                     !.game_over = quit_pending],
                                        lm_list, current_time, hits)
          IN  /\ (hits > 0 => Len(lm_list) >= 9)
              /\ game' = r.self
              /\ pc' = IF r.raised THEN "IndexError" ELSE pc
              /\ now' = current_time
              /\ op' = Call("finger_painter_frame", lm_list, FALSE, current_time,
                            threshold, g, None)
              /\ frames_seen' = Append(frames_seen, ObservedGap(lm_list))
    /\ quit_pending' = FALSE
    /\ n_calls' = n_calls + 1
    /\ UNCHANGED <<hand_tracker, was_pinching, edges, smoothness,
                   consistency, session_data, calibration_screen, calibration_result, angles, app>>

\* the loop is left and run opens BaseGame.show_game_over_screen
FingerPainterGameOver ==
    /\ pc = "finger_painter"
    /\ game.game_over
    /\ pc' = "returned"
    /\ op' = [op EXCEPT !.name = "finger_painter_game_over"]
    /\ UNCHANGED <<now, n_calls, game, hand_tracker, was_pinching, frames_seen, edges,
                   smoothness, consistency, session_data, calibration_screen,
                   calibration_result, angles, quit_pending, app>>

\* MainApp._run_game has constructed one of the three games with the
\* calibration result and calls its run.  FingerPainterGame is also taken up
\* with one second left on its timer after a start in which no camera read
\* succeeded: nothing but the timer has changed since construction.
\* AngleMasterGame is also taken up two frames short of the goal, after
\* frames that all showed the finger at the target angle 45.
InitGames ==
    /\ pc \in {"angle_master", "maze", "finger_painter"}
    /\ n_calls = 0
    /\ op = NoOp
    /\ \E target \in TargetAngles, timer \in {15, 1}, held \in {0, HoldDurationGoal - 2} :
          /\ game = IF pc = "angle_master"
                    THEN (IF held = 0 THEN NewAngleMasterGame(DefaultCalibration, 0, target)
                          ELSE AngleMasterAfterHeld(DefaultCalibration, held))
                    ELSE IF pc = "maze" THEN NewMazeGame(DefaultCalibration, 0)
                    ELSE NewFingerPainterGame(DefaultCalibration, 0, timer)
          /\ now = IF pc = "angle_master" THEN held ELSE 0
          /\ frames_seen = IF pc = "angle_master" THEN [i \in 1..held |-> 0] ELSE << >>
    /\ hand_tracker = [calibrated_pinch_threshold |-> <<DefaultCalibration.pinch_threshold>>,
                       sensitivity |-> <<DefaultCalibration.sensitivity>>]
    /\ was_pinching = FALSE
    /\ edges = [rising |-> 0, falling |-> 0]
    /\ smoothness = None
    /\ consistency = None
    /\ session_data = None
    /\ calibration_screen = None
    /\ calibration_result = None
    /\ angles = None
    /\ quit_pending = FALSE
    /\ app = NewMainApp

NextGames ==
    \/ QuitRequested
    \/ AngleMasterFrameSkipped \/ AngleMasterFrame \/ AngleMasterReturn
    \/ MazeFrameSkipped \/ MazeFrame \/ MazeReturn
    \/ FingerPainterTimeUp \/ FingerPainterFrameSkipped \/ FingerPainterFrame
    \/ FingerPainterGameOver
    \/ SaveSession

SpecGames == InitGames /\ [][NextGames]_vars

(***************************************************************************)
(* PinchRunnerGame of rehab_gamification/games/pinch_runner.py, a game on  *)
(* its own: it opens its own camera and does not derive from BaseGame      *)
(***************************************************************************)
MaxRunnerFrames == 40  \* frames read per behaviour: a jump lasts 37 of them

\* PinchRunnerGame.__init__ on the 1280 x 720 screen (pinch_distances, which
\* only get_session_data reads, is left out); obstacles holds the x of each
\* obstacle rectangle
NewPinchRunnerGame ==
    [game_over |-> FALSE, is_jumping |-> FALSE, player_y |-> RInt(720 - 50),
     player_y_velocity |-> RInt(0), obstacles |-> << >>, score |-> 0, pinch_count |-> 0]

\* the loop over the obstacles: each moves 5 px left, one that has left the
\* screen is removed from the list being iterated, so the one after it is
\* skipped on this pass
RECURSIVE MoveObstacles(_)
MoveObstacles(obstacles) ==
    IF obstacles = << >> THEN << >>
    ELSE IF (obstacles[1] - 5) + 30 < 0
    THEN (IF Len(obstacles) > 1
          THEN <<obstacles[2]>> \o MoveObstacles(SubSeq(obstacles, 3, Len(obstacles)))
          ELSE << >>)
    ELSE <<obstacles[1] - 5>> \o MoveObstacles(Tail(obstacles))

\* the body of one iteration of PinchRunnerGame.run after a successful read
pinch_runner_frame(self, lm_list) ==
    IF lm_list # << >> /\ Len(lm_list) < 9 THEN [self |-> self, raised |-> TRUE]
    ELSE
    LET pinch == lm_list # << >> /\ calculate_distance(At(lm_list, 4), At(lm_list, 8)) < 30
        jump == pinch /\ ~self.is_jumping
        jumping == self.is_jumping \/ jump
        velocity == RAdd(IF jump THEN RInt(-15) ELSE self.player_y_velocity, Rat(8, 10))
        y == RAdd(self.player_y, velocity)
        landed == ~RLess(y, RInt(720 - 50))
        player_y == IF ~jumping THEN self.player_y
                    ELSE IF landed THEN RInt(720 - 50) ELSE y
        created == IF self.obstacles = << >>
                      \/ self.obstacles[Len(self.obstacles)] < 1280 - 300
                   THEN Append(self.obstacles, 1280) ELSE self.obstacles
        obstacles == MoveObstacles(created)
        player_rect == [x |-> 100, y |-> player_y[1] \div player_y[2], w |-> 50, h |-> 50]
        collision == \E i \in 1..Len(obstacles) :
                        colliderect(player_rect,
                                    [x |-> obstacles[i], y |-> 720 - 70, w |-> 30, h |-> 70])
    IN  [self |-> [self EXCEPT
                      !.is_jumping = jumping /\ ~landed,
                      !.player_y_velocity = IF jumping THEN velocity
                                            ELSE self.player_y_velocity,
                      !.player_y = player_y,
                      !.pinch_count = IF jump THEN @ + 1 ELSE @,
                      !.obstacles = obstacles,
                      !.score = @ + (Len(created) - Len(obstacles)),
                      !.game_over = @ \/ collision],
         raised |-> FALSE]

\* PinchRunnerGame before the first iteration of run
InitRunner ==
    /\ pc = "pinch_runner"
    /\ now = 0
    /\ n_calls = 0
    /\ op = NoOp
    /\ game = NewPinchRunnerGame
    /\ hand_tracker = NewHandTracker
    /\ was_pinching = FALSE
    /\ frames_seen = << >>
    /\ edges = [rising |-> 0, falling |-> 0]
    /\ smoothness = None
    /\ consistency = None
    /\ session_data = None
    /\ calibration_screen = None
    /\ calibration_result = None
    /\ angles = None
    /\ quit_pending = FALSE
    /\ app = NewMainApp

\* one iteration of PinchRunnerGame.run whose camera read fails, after the
\* event queue has been handled
PinchRunnerFrameSkipped ==
    /\ pc = "pinch_runner"
    /\ ~game.game_over
    /\ game' = [game EXCEPT !.game_over = quit_pending]
    /\ quit_pending' = FALSE
    /\ op' = [op EXCEPT !.name = "pinch_runner_read_failed"]
    /\ UNCHANGED <<pc, now, n_calls, hand_tracker, was_pinching, frames_seen, edges,
                   smoothness, consistency, session_data, calibration_screen,
                   calibration_result, angles, app>>

\* one iteration of PinchRunnerGame.run with a frame read; the hands shown
\* have their tips 20 (a pinch) or 30 apart
PinchRunnerFrame ==
    /\ pc = "pinch_runner"
    /\ ~game.game_over
    /\ n_calls < MaxRunnerFrames
    /\ \E lm_list \in {NoHand} \cup PartialSnapshots
                        \cup FullSnapshots({<<100, 100>>}, {<<12, 16>>, <<18, 24>>}) :
          LET r == pinch_runner_frame([game EXCEPT !.game_over = quit_pending], lm_list)
          IN  /\ game' = r.self
              /\ pc' = IF r.raised THEN "IndexError" ELSE pc
              /\ op' = Call("pinch_runner_frame", lm_list, FALSE, now, 30, NoGesture, None)
    /\ quit_pending' = FALSE
    /\ n_calls' = n_calls + 1
    /\ UNCHANGED <<now, hand_tracker, was_pinching, frames_seen, edges, smoothness,
                   consistency, session_data, calibration_screen, calibration_result,
                   angles, app>>

\* the loop is left: run releases the game's own camera and returns
PinchRunnerReturn ==
    /\ pc = "pinch_runner"
    /\ game.game_over
    /\ pc' = "returned"
    /\ op' = [op EXCEPT !.name = "pinch_runner_return"]
    /\ UNCHANGED <<now, n_calls, game, hand_tracker, was_pinching, frames_seen, edges,
                   smoothness, consistency, session_data, calibration_screen,
                   calibration_result, angles, quit_pending, app>>

NextRunner ==
    \/ QuitRequested
    \/ PinchRunnerFrameSkipped \/ PinchRunnerFrame \/ PinchRunnerReturn

SpecRunner == InitRunner /\ [][NextRunner]_vars

(***************************************************************************)
(* Properties of the accumulators                                          *)
(***************************************************************************)
\* what a frame shows, read off the snapshot itself
TipsPresent(lm_list) == Len(lm_list) >= 9
TipGapSquared(lm_list) ==
    (lm_list[5][2] - lm_list[9][2]) * (lm_list[5][2] - lm_list[9][2])
    + (lm_list[5][3] - lm_list[9][3]) * (lm_list[5][3] - lm_list[9][3])
FrameShowsPinch(lm_list, threshold) ==
    TipsPresent(lm_list) /\ TipGapSquared(lm_list) < threshold * threshold

\* C1: over any sequence of track_pinch_event calls with at least 9 landmarks,
\* total_pinch_attempts grows by exactly 1 on a pinching call made while no
\* pinch is open and is unchanged on every other call; it never grows on a
\* pinching call that follows a pinching call (pinch held).
C1_AttemptOnRisingEdgeOnly ==
    [][(op'.name = "track_pinch_event" /\ TipsPresent(op'.lm_list)) =>
          /\ game'.pinch_data.total_pinch_attempts =
                game.pinch_data.total_pinch_attempts
                + (IF FrameShowsPinch(op'.lm_list, 40) /\ game.current_pinch_start = None
                   THEN 1 ELSE 0)
          /\ (op.name = "track_pinch_event" /\ FrameShowsPinch(op.lm_list, 40)
              /\ FrameShowsPinch(op'.lm_list, 40))
                => game'.pinch_data.total_pinch_attempts = game.pinch_data.total_pinch_attempts
      ]_vars

\* a pinch was started, held over a later pinching call, released and started again
C1_Witness ==
    /\ op.name = "track_pinch_event"
    /\ FrameShowsPinch(op.lm_list, 40)
    /\ game.pinch_data.total_pinch_attempts = 2
    /\ game.current_pinch_start # None
    /\ game.current_pinch_start # <<op.time>>

\* C2: a duration is appended only by a track_pinch_event call whose frame is
\* not pinching while a pinch is open (and by every such call with both tips
\* present); the value is the call's time minus the pinch's start time,
\* last_pinch_time becomes the call's time and the open pinch is cleared.
\* No other call changes pinch_durations.
C2_DurationOnReleaseOnly ==
    [][op'.name = "track_pinch_event" =>
          LET before == game.pinch_data.pinch_durations
              after == game'.pinch_data.pinch_durations
              release == /\ TipsPresent(op'.lm_list)
                         /\ ~FrameShowsPinch(op'.lm_list, 40)
                         /\ game.current_pinch_start # None
          IN  /\ release =>
                    /\ after = Append(before, op'.time - game.current_pinch_start[1])
                    /\ game'.last_pinch_time = <<op'.time>>
                    /\ game'.current_pinch_start = None
              /\ ~release => after = before
      ]_vars

\* a pinch held for 3 time units has just been released
C2_Witness ==
    /\ op.name = "track_pinch_event"
    /\ game.pinch_data.pinch_durations # << >>
    /\ game.pinch_data.pinch_durations[Len(game.pinch_data.pinch_durations)] = 3
    /\ game.last_pinch_time = <<op.time>>
    /\ game.current_pinch_start = None

\* C8: through _track_hand_data the three movement records stay aligned
\* (len(movement_speeds) = len(movement_distances) = total_movements), and a
\* sample is appended on a frame only if a hand is detected on it, a previous
\* hand position exists, the time since the previous frame is > 0 and the
\* displacement is > 1 px; the appended speed is displacement / elapsed time.
C8_SpeedSamples ==
    /\ [](/\ Len(game.hand_movement_data.movement_speeds)
               = game.hand_movement_data.total_movements
          /\ Len(game.hand_movement_data.movement_distances)
               = game.hand_movement_data.total_movements)
    /\ [][(op'.name = "_track_hand_data"
           /\ game'.hand_movement_data.total_movements # game.hand_movement_data.total_movements) =>
             LET elapsed == op'.time - op.time
                 prev == game.last_hand_position
                 cur == <<op'.lm_list[9][2], op'.lm_list[9][3]>>
                 d2 == (cur[1] - prev[1]) * (cur[1] - prev[1])
                       + (cur[2] - prev[2]) * (cur[2] - prev[2])
                 speeds == game'.hand_movement_data.movement_speeds
                 dists == game'.hand_movement_data.movement_distances
                 v == speeds[Len(speeds)]
             IN  /\ TipsPresent(op'.lm_list)
                 /\ prev # None
                 /\ elapsed > 0
                 /\ d2 > 1
                 /\ game'.hand_movement_data.total_movements
                       = game.hand_movement_data.total_movements + 1
                 /\ Len(speeds) = Len(game.hand_movement_data.movement_speeds) + 1
                 /\ dists[Len(dists)] * dists[Len(dists)] = d2
                 /\ v[1] * v[1] * elapsed * elapsed = d2 * v[2] * v[2]
         ]_vars

\* two samples recorded, the last one a non-integer speed (3 px in 2 ticks), and
\* at least one detected frame with a previous position recorded nothing
C8_Witness ==
    /\ game.hand_movement_data.total_movements = 2
    /\ game.hand_movement_data.movement_speeds[2] = <<3, 2>>
    /\ game.hand_movement_data.hand_detected_frames >= 4

\* C9: tracking_lost_count grows by exactly 1 on a frame with no hand
\* detected that directly follows a frame with a hand detected, and on no
\* other frame: consecutive not-detected frames count once, not-detected
\* frames before the first detection are not counted.
C9_TrackingLostOnFallingEdge ==
    [][op'.name = "_track_hand_data" =>
          game'.hand_movement_data.tracking_lost_count =
              game.hand_movement_data.tracking_lost_count
              + (IF /\ ~TipsPresent(op'.lm_list)
                    /\ op.name = "_track_hand_data"
                    /\ TipsPresent(op.lm_list)
                 THEN 1 ELSE 0)
      ]_vars

\* not-detected, detected, not-detected, not-detected: one loss counted
C9_Witness ==
    /\ game.hand_movement_data.total_frames = 4
    /\ game.hand_movement_data.hand_detected_frames = 1
    /\ game.hand_movement_data.tracking_lost_count = 1
    /\ game.last_frame_time > 0
    /\ ~TipsPresent(op.lm_list)

\* C6: a snapshot without the thumb tip (id 4) or the index tip (id 8), that
\* is one that is empty or has fewer than 9 landmarks, makes get_pinch_gesture
\* report not-pinching and no cursor position (the source's placeholder for
\* "no position", the origin (0, 0)), at every threshold.
C6_MissingTipsNoPinch ==
    (op.name = "get_pinch_gesture" /\ Len(op.lm_list) < 9) =>
        /\ op.is_pinching = FALSE
        /\ op.pinch_pos = <<0, 0>>

\* the detector was called on a snapshot that has the thumb tip but not the index tip
C6_Witness ==
    /\ op.name = "get_pinch_gesture"
    /\ Len(op.lm_list) = 8
    /\ op.is_pinching = FALSE
    /\ op.pinch_pos = <<0, 0>>

\* C7: get_pinch_gesture has no hysteresis and no memory: with both tips
\* present is_pinching is true exactly when their distance is strictly below
\* pinch_threshold (a distance equal to the threshold is not a pinch),
\* whatever earlier calls reported; so two successive frames on opposite
\* sides of the threshold always give a transition.
C7_SingleStrictThreshold ==
    /\ []((op.name = "get_pinch_gesture" /\ TipsPresent(op.lm_list)) =>
            (op.is_pinching <=> TipGapSquared(op.lm_list) < op.threshold * op.threshold))
    /\ [][(/\ op.name = "get_pinch_gesture" /\ TipsPresent(op.lm_list)
           /\ op'.name = "get_pinch_gesture" /\ TipsPresent(op'.lm_list)
           /\ op'.threshold = op.threshold
           /\ (TipGapSquared(op.lm_list) < op.threshold * op.threshold)
                # (TipGapSquared(op'.lm_list) < op.threshold * op.threshold))
             => op'.is_pinching # op.is_pinching
         ]_vars

\* a frame whose tip distance equals the threshold was classified, after earlier calls
C7_Witness ==
    /\ op.name = "get_pinch_gesture"
    /\ TipsPresent(op.lm_list)
    /\ TipGapSquared(op.lm_list) = op.threshold * op.threshold
    /\ ~op.is_pinching
    /\ n_calls >= 2

\* C3: in BalloonPopGame.run the pinch accumulator is told of every rising
\* and every falling edge of the game's is_pinching signal:
\* total_pinch_attempts equals the number of rising edges seen so far and one
\* duration is recorded per falling edge (pinch, release, pinch: two attempts).
\* Stated for the sessions calibrated to 40 px, in which the game and the
\* accumulator agree on which frames are pinching.
C3_AccumulatorFollowsEdges ==
    (/\ op.name \in {"balloon_frame", "balloon_read_failed"}
     /\ game.calibration_data.pinch_threshold = DefaultPinchThreshold) =>
        /\ game.pinch_data.total_pinch_attempts = edges.rising
        /\ Len(game.pinch_data.pinch_durations) = edges.falling

\* C4: once calibration has produced pinch_threshold T and it has been
\* applied, every pinch decision of the session is "distance below T": the
\* game's per-frame get_pinch_gesture call, the classification inside
\* track_pinch_event and the closing pinch of the game-over screen.
C4_DecisionsUseCalibratedThreshold ==
    LET T == hand_tracker.calibrated_pinch_threshold[1]
    IN  /\ op.name = "balloon_frame" =>
              /\ op.is_pinching = FrameShowsPinch(op.lm_list, T)
              /\ op.tracked # None => op.tracked[1] = FrameShowsPinch(op.lm_list, T)
        /\ op.name = "game_over_frame" =>
              op.is_pinching = FrameShowsPinch(op.lm_list, T)

\* crossings of the threshold by the sequence of observed tip gaps
GapBelow(gap, threshold) == gap < threshold * threshold
DownCrossings(log, threshold) ==
    {i \in 2..Len(log) : ~GapBelow(log[i - 1], threshold) /\ GapBelow(log[i], threshold)}
UpCrossings(log, threshold) ==
    {i \in 2..Len(log) : GapBelow(log[i - 1], threshold) /\ ~GapBelow(log[i], threshold)}
OnceDownThenOnceUp(log, threshold) ==
    /\ \A i \in 1..Len(log) : log[i] >= 0
    /\ Cardinality(DownCrossings(log, threshold)) = 1
    /\ Cardinality(UpCrossings(log, threshold)) = 1
    /\ \A d \in DownCrossings(log, threshold), u \in UpCrossings(log, threshold) : d < u

\* C5: when the pinch distances of the frames given to the detector cross
\* the threshold exactly once downward and then once upward, a caller that
\* keeps the prior frame's state (DinoGame.last_pinch_state, the main menu's
\* was_pinching) sees exactly one rising and one falling edge; DinoGame
\* counts exactly one pinch.
C5_OneRisingOneFalling ==
    (pc # "exited" /\ frames_seen # << >>
     /\ OnceDownThenOnceUp(frames_seen, op.threshold)) =>
        /\ edges.rising = 1
        /\ edges.falling = 1
        /\ game.points > 0 => game.pinch_count = 1

\* DinoGame has seen the distance go below the threshold, stay there for a
\* frame and come back above it
C5_Witness ==
    /\ game.points >= 4
    /\ OnceDownThenOnceUp(frames_seen, op.threshold)
    /\ game.pinch_count = 1
    /\ edges.rising = 1
    /\ edges.falling = 1

\* the smoothness formula on a history of whole speeds, as the fraction
\* num / den (den > 0): max(0, 100 - 100 * mean|s[i+1] - s[i]| / mean(s))
SpeedAt(speeds, i) == speeds[i][1]
RECURSIVE TotalSpeed(_, _)
TotalSpeed(speeds, n) == IF n = 0 THEN 0 ELSE SpeedAt(speeds, n) + TotalSpeed(speeds, n - 1)
RECURSIVE TotalChange(_, _)
TotalChange(speeds, n) ==
    IF n <= 1 THEN 0
    ELSE Abs(SpeedAt(speeds, n) - SpeedAt(speeds, n - 1)) + TotalChange(speeds, n - 1)
FormulaDen(speeds) == (Len(speeds) - 1) * TotalSpeed(speeds, Len(speeds))
FormulaNum(speeds) ==
    LET raw == 100 * FormulaDen(speeds) - 100 * Len(speeds) * TotalChange(speeds, Len(speeds))
    IN  IF raw < 0 THEN 0 ELSE raw
ScoreIsZero(speeds) == Len(speeds) < 3 \/ TotalSpeed(speeds, Len(speeds)) = 0

\* C10 as stated: calculate_movement_smoothness returns 0 with fewer than 3
\* samples or a mean speed of 0, and otherwise exactly
\* max(0, 100 - 100 * mean|s[i+1] - s[i]| / mean(s)); the result lies in
\* 0..100 and 10 equal positive speeds give 100.
C10_ExactFormula ==
    smoothness # None =>
        LET speeds == game.hand_movement_data.movement_speeds
            r == smoothness[1]
        IN  /\ ScoreIsZero(speeds) => r = RInt(0)
            /\ ~ScoreIsZero(speeds) => r[1] * FormulaDen(speeds) = r[2] * FormulaNum(speeds)
            /\ 0 <= r[1] /\ r[1] <= 100 * r[2]
            /\ (Len(speeds) = 10 /\ \A i \in 1..10 : speeds[i] = speeds[1]) => r = RInt(100)

\* C10 amended: ... and otherwise that value rounded to two decimal places
\* (a multiple of 0.01 at most 0.005 away from it); the result lies in 0..100
\* and 10 equal positive speeds give 100.
C10_RoundedFormula ==
    smoothness # None =>
        LET speeds == game.hand_movement_data.movement_speeds
            r == smoothness[1]
        IN  /\ ScoreIsZero(speeds) => r = RInt(0)
            /\ ~ScoreIsZero(speeds) =>
                  /\ 100 % r[2] = 0
                  /\ 200 * Abs(r[1] * FormulaDen(speeds) - r[2] * FormulaNum(speeds))
                        <= r[2] * FormulaDen(speeds)
            /\ 0 <= r[1] /\ r[1] <= 100 * r[2]
            /\ (Len(speeds) = 10 /\ \A i \in 1..10 : speeds[i] = speeds[1]) => r = RInt(100)

\* the score of the history 1, 2, 3, 1 was computed: 100 - 100 * (4/3) / (7/4)
\* = 23.8095..., returned as 23.81
C10_Witness ==
    /\ smoothness = <<<<2381, 100>>>>
    /\ game.hand_movement_data.movement_speeds = <<RInt(1), RInt(2), RInt(3), RInt(1)>>


\* C11 as stated: every attempt is counted as exactly one of success or
\* failure, by the was_successful of the call that recorded it:
\* successful_pinches + failed_pinches = total_pinch_attempts in every state,
\* and the reported pinch_success_rate is exactly
\* successful_pinches / total_pinch_attempts * 100 (0 with no attempts);
\* 7 successes in 10 attempts give 70.0.
C11_ExactSuccessRate ==
    /\ [](game.pinch_data.successful_pinches + game.pinch_data.failed_pinches
            = game.pinch_data.total_pinch_attempts)
    /\ [][game'.pinch_data.total_pinch_attempts # game.pinch_data.total_pinch_attempts =>
            /\ game'.pinch_data.successful_pinches
                 = game.pinch_data.successful_pinches + (IF op'.was_successful THEN 1 ELSE 0)
            /\ game'.pinch_data.failed_pinches
                 = game.pinch_data.failed_pinches + (IF op'.was_successful THEN 0 ELSE 1)
         ]_vars
    /\ [](session_data # None =>
            LET a == game.pinch_data.total_pinch_attempts
                k == game.pinch_data.successful_pinches
                r == session_data.pinch_analytics.pinch_success_rate
            IN  /\ a = 0 => r = RInt(0)
                /\ a > 0 => r[1] * a = r[2] * 100 * k
                /\ (a = 10 /\ k = 7) => r = RInt(70))

\* C11 amended: ... and the reported pinch_success_rate is
\* successful_pinches / total_pinch_attempts * 100 rounded to two decimal
\* places (0 with no attempts); 7 successes in 10 attempts give 70.0.
C11_RoundedSuccessRate ==
    /\ [](game.pinch_data.successful_pinches + game.pinch_data.failed_pinches
            = game.pinch_data.total_pinch_attempts)
    /\ [][game'.pinch_data.total_pinch_attempts # game.pinch_data.total_pinch_attempts =>
            /\ game'.pinch_data.successful_pinches
                 = game.pinch_data.successful_pinches + (IF op'.was_successful THEN 1 ELSE 0)
            /\ game'.pinch_data.failed_pinches
                 = game.pinch_data.failed_pinches + (IF op'.was_successful THEN 0 ELSE 1)
         ]_vars
    /\ [](session_data # None =>
            LET a == game.pinch_data.total_pinch_attempts
                k == game.pinch_data.successful_pinches
                r == session_data.pinch_analytics.pinch_success_rate
            IN  /\ a = 0 => r = RInt(0)
                /\ a > 0 => /\ 100 % r[2] = 0
                            /\ 200 * Abs(r[1] * a - r[2] * 100 * k) <= r[2] * a
                /\ (a = 10 /\ k = 7) => r = RInt(70))

\* the session data was read with 7 successes in 10 attempts on record
C11_Witness ==
    /\ session_data # None
    /\ game.pinch_data.total_pinch_attempts = 10
    /\ game.pinch_data.successful_pinches = 7
    /\ game.pinch_data.failed_pinches = 3
    /\ session_data.pinch_analytics.pinch_success_rate = RInt(70)


\* the consistency formula on a history d of whole distances, with
\* S = sum(d), n = len(d) and W = n * sum(d^2) - S^2:
\* mean = S / n, stddev = sqrt(W) / n, so stddev / mean = sqrt(W) / S
RECURSIVE TotalOf(_, _)
TotalOf(d, n) == IF n = 0 THEN 0 ELSE d[n] + TotalOf(d, n - 1)
RECURSIVE TotalOfSquares(_, _)
TotalOfSquares(d, n) == IF n = 0 THEN 0 ELSE d[n] * d[n] + TotalOfSquares(d, n - 1)
SpreadW(d) == Len(d) * TotalOfSquares(d, Len(d)) - TotalOf(d, Len(d)) * TotalOf(d, Len(d))
ConsistencyIsZero(d) == Len(d) < 2 \/ TotalOf(d, Len(d)) = 0
IsSquare(n) == \E w \in 0..n : w * w = n
RootOf(n) == CHOOSE w \in 0..n : w * w = n

\* C12 as stated: _calculate_pinch_consistency returns 0 with fewer than 2
\* distances or a mean of 0, and otherwise exactly
\* max(0, 100 - 100 * stddev / mean) with the population standard deviation;
\* the result lies in 0..100 and is 100 when all distances are equal and
\* positive.
C12_ExactFormula ==
    consistency # None =>
        LET d == game.pinch_data.pinch_distances
            S == TotalOf(d, Len(d))
            W == SpreadW(d)
            r == consistency[1]
        IN  /\ ConsistencyIsZero(d) => r = RInt(0)
            /\ (~ConsistencyIsZero(d) /\ W >= S * S) => r = RInt(0)
            /\ (~ConsistencyIsZero(d) /\ W < S * S /\ IsSquare(W)) =>
                  (100 * r[2] - r[1]) * S = 100 * RootOf(W) * r[2]
            /\ 0 <= r[1] /\ r[1] <= 100 * r[2]
            /\ (Len(d) >= 2 /\ d[1] > 0 /\ \A i \in 1..Len(d) : d[i] = d[1]) => r = RInt(100)

\* C12 amended: ... and otherwise that value rounded to two decimal places (a
\* multiple of 0.01 at most 0.005 away from it); the result lies in 0..100
\* and is 100 when all distances are equal and positive.
C12_RoundedFormula ==
    consistency # None =>
        LET d == game.pinch_data.pinch_distances
            S == TotalOf(d, Len(d))
            W == SpreadW(d)
            r == consistency[1]
        IN  /\ ConsistencyIsZero(d) => r = RInt(0)
            /\ (~ConsistencyIsZero(d) /\ W >= S * S) => r = RInt(0)
            /\ (~ConsistencyIsZero(d) /\ W < S * S /\ IsSquare(W)) =>
                  /\ 100 % r[2] = 0
                  /\ 200 * Abs((100 * r[2] - r[1]) * S - 100 * RootOf(W) * r[2]) <= r[2] * S
            /\ 0 <= r[1] /\ r[1] <= 100 * r[2]
            /\ (Len(d) >= 2 /\ d[1] > 0 /\ \A i \in 1..Len(d) : d[i] = d[1]) => r = RInt(100)

\* the score of the history 1, 2 was computed: 100 - 100 * 0.5 / 1.5 =
\* 66.666..., returned as 66.67
C12_Witness ==
    /\ consistency = <<<<6667, 100>>>>
    /\ game.pinch_data.pinch_distances = <<1, 2>>


\* the sample that sorted_ascending[k] (0-based) denotes: fewer than k + 1
\* samples lie below it and at least k + 1 are at most it
CountBelow(samples, v) == Cardinality({i \in 1..Len(samples) : samples[i] < v})
CountAtMost(samples, v) == Cardinality({i \in 1..Len(samples) : samples[i] <= v})
OrderStatistic(samples, k) ==
    CHOOSE v \in {samples[i] : i \in 1..Len(samples)} :
        CountBelow(samples, v) <= k /\ k < CountAtMost(samples, v)
SpanOf(positions, c) ==
    LET S == {positions[i][c] : i \in 1..Len(positions)}
    IN  (CHOOSE x \in S : \A y \in S : y <= x) - (CHOOSE x \in S : \A y \in S : x <= y)

\* C13: _calculate_calibration never fails: with no samples it returns
\* pinch_threshold 40 and sensitivity 1.0; with n >= 1 samples it returns
\* pinch_threshold = min(1.2 * sorted_ascending[floor(0.7 * n)], 60) and
\* sensitivity 1.5 if ((max x - min x) + (max y - min y)) / 2 is below 100,
\* else 1.0; 30 samples of 10 followed by 70 of 50 give threshold 60.
C13_CalibrationValues ==
    calibration_result # None =>
        LET d == calibration_screen.pinch_distances
            pos == calibration_screen.hand_positions
            n == Len(d)
            v == OrderStatistic(d, (7 * n) \div 10)
            T == calibration_result.pinch_threshold
            sens == calibration_result.sensitivity
        IN  /\ n = 0 => T = RInt(40) /\ sens = RInt(1)
            /\ n >= 1 =>
                  /\ T = (IF 12 * v >= 600 THEN RInt(60) ELSE Rat(12 * v, 10))
                  /\ sens = (IF SpanOf(pos, 1) + SpanOf(pos, 2) < 200
                             THEN Rat(3, 2) ELSE RInt(1))
            /\ d = Repeat(10, 30) \o Repeat(50, 70) => T = RInt(60)


\* C14: given that the clock advances, CalibrationScreen.run always
\* terminates with a result; it returns no later than the first iteration
\* that starts after the 8-second window has elapsed (or earlier on QUIT); it
\* takes one distance and one position sample for every frame read with at
\* least 9 landmarks inside the window, and none after the window has
\* expired or for a frame whose read failed.
C14_RunTerminatesAndSamples ==
    /\ <>(pc = "calibrated")
    /\ [](pc = "calibrated" =>
            /\ calibration_result # None
            /\ calibration_result.pinch_threshold[1] > 0
            /\ calibration_result.sensitivity[1] > 0)
    /\ [][LET before == calibration_screen
              after == calibration_screen'
              iteration == n_calls' # n_calls \/ pc' # pc
              in_window == now - before.start_time < 8
              sampling == /\ op'.name = "calibration_frame"
                          /\ TipsPresent(op'.lm_list)
          IN  /\ (iteration /\ ~in_window) => pc' = "calibrated"
              /\ (iteration /\ sampling /\ in_window) =>
                    /\ Len(after.pinch_distances) = Len(before.pinch_distances) + 1
                    /\ Len(after.hand_positions) = Len(before.hand_positions) + 1
                    /\ after.pinch_distances[Len(after.pinch_distances)]
                         * after.pinch_distances[Len(after.pinch_distances)]
                         = TipGapSquared(op'.lm_list)
              /\ ~(iteration /\ sampling /\ in_window) => after = before
         ]_vars

\* the loop has sampled two frames, skipped a failed read and a frame without
\* tips, and returned once the window had expired
C14_Witness ==
    /\ pc = "calibrated"
    /\ op.name = "calibration_expired"
    /\ now - calibration_screen.start_time >= 8
    /\ n_calls = 3
    /\ Len(calibration_screen.pinch_distances) = 2
    /\ Len(calibration_screen.hand_positions) = 2
    /\ calibration_result = [pinch_threshold |-> RInt(36), sensitivity |-> Rat(3, 2)]


\* the two bones at the vertex as vectors, their dot and cross products
BoneA(a) == <<a.p1[2] - a.p2[2], a.p1[3] - a.p2[3]>>
BoneB(a) == <<a.p3[2] - a.p2[2], a.p3[3] - a.p2[3]>>
Dot(u, w) == u[1] * w[1] + u[2] * w[2]
Cross(u, w) == u[1] * w[2] - u[2] * w[1]

\* C15: the joint angle delivered to the game logic is within [0, 180]: the
\* raw atan2 difference d, in (-360, 360), becomes d + 360 if negative and
\* then 360 - value if above 180; this holds for HandTracker.calculate_angle
\* and for the older HandTracker once the older AngleMasterGame has applied
\* its reflection, and both give the same angle for the same three points:
\* the interior angle between the bones (90 for a right angle at the vertex).
C15_AngleWithin180 ==
    angles # None =>
        LET d == angles.raw
            u == BoneA(angles)
            w == BoneB(angles)
            normal == IF d < 0 THEN d + 360 ELSE d
        IN  /\ -360 < d /\ d < 360
            /\ angles.current_angle = (IF normal > 180 THEN 360 - normal ELSE normal)
            /\ 0 <= angles.current_angle /\ angles.current_angle <= 180
            /\ angles.older = angles.current_angle
            /\ (u # <<0, 0>> /\ w # <<0, 0>>) =>
                  /\ Dot(u, w) = 0 => angles.current_angle = 90
                  /\ (Cross(u, w) = 0 /\ Dot(u, w) > 0) => angles.current_angle = 0
                  /\ (Cross(u, w) = 0 /\ Dot(u, w) < 0) => angles.current_angle = 180
                  /\ (Dot(u, w) > 0 /\ Cross(u, w) # 0) => angles.current_angle = 45
                  /\ (Dot(u, w) < 0 /\ Cross(u, w) # 0) => angles.current_angle = 135

\* a right angle whose raw difference is 270 (bones pointing to -90 and 180
\* degrees) came out as 90 from both pipelines
C15_Witness ==
    /\ angles # None
    /\ angles.raw = 270
    /\ angles.current_angle = 90
    /\ angles.older = 90
    /\ Dot(BoneA(angles), BoneB(angles)) = 0


\* a float that came out of a division by zero has denominator 0
Finite(r) == r[2] > 0

\* C16: in every accumulator state, a freshly constructed game and any
\* mid-session state included, get_enhanced_session_data returns without
\* fault, and every derived statistic whose history is empty or whose
\* denominator is zero is reported as 0.
C16_ZeroDefaults ==
    session_data # None =>
        LET hm == game.hand_movement_data
            pd == game.pinch_data
            meta == session_data.session_metadata
            mov == session_data.hand_movement_analytics
            pin == session_data.pinch_analytics
        IN  /\ \A r \in {meta.duration_seconds, meta.hand_detection_rate,
                        mov.interaction_effectiveness, mov.avg_movement_speed,
                        mov.total_movement_distance, mov.movement_smoothness_score,
                        pin.pinch_success_rate, pin.avg_pinch_distance,
                        pin.avg_pinch_duration, pin.avg_time_between_pinches,
                        pin.pinch_consistency} : Finite(r)
            /\ hm.total_frames = 0 => meta.hand_detection_rate = RInt(0)
            /\ hm.movement_speeds = << >> =>
                  /\ mov.avg_movement_speed = RInt(0)
                  /\ mov.movement_smoothness_score = RInt(0)
            /\ hm.movement_distances = << >> => mov.total_movement_distance = RInt(0)
            /\ hm.total_movements = 0 => mov.interaction_effectiveness = RInt(0)
            /\ pd.total_pinch_attempts = 0 => pin.pinch_success_rate = RInt(0)
            /\ pd.pinch_distances = << >> =>
                  /\ pin.avg_pinch_distance = RInt(0)
                  /\ pin.pinch_consistency = RInt(0)
            /\ pd.pinch_durations = << >> => pin.avg_pinch_duration = RInt(0)
            /\ pd.pinch_timing = << >> => pin.avg_time_between_pinches = RInt(0)

\* the data was read mid-session: two frames in, the first pinch still held,
\* so there is a success rate but no duration, gap or movement sample yet
C16_Witness ==
    /\ session_data # None
    /\ game.hand_movement_data.total_frames = 2
    /\ game.pinch_data.total_pinch_attempts = 1
    /\ game.current_pinch_start # None
    /\ game.pinch_data.pinch_durations = << >>
    /\ game.hand_movement_data.movement_speeds = << >>
    /\ session_data.pinch_analytics.pinch_success_rate = RInt(100)
    /\ session_data.pinch_analytics.avg_pinch_duration = RInt(0)
    /\ session_data.pinch_analytics.avg_time_between_pinches = RInt(0)
    /\ session_data.hand_movement_analytics.avg_movement_speed = RInt(0)
    /\ session_data.session_metadata.hand_detection_rate = RInt(100)

\* C19: when the session data is read while a pinch is still open (its rising
\* edge was recorded, no release followed), the metrics report that attempt
\* and a duration for it, from the pinch start to the session end: the
\* average duration is the average of the recorded durations together with
\* the open pinch's.
C19_OpenPinchDurationAtEnd ==
    (session_data # None /\ game.current_pinch_start # None) =>
        LET open_duration == now - game.current_pinch_start[1]
            durations == Append(game.pinch_data.pinch_durations, open_duration)
        IN  /\ session_data.pinch_analytics.total_pinch_attempts >= 1
            /\ session_data.pinch_analytics.avg_pinch_duration
                   = Round3(Average(Rats(durations)))

\* the accumulator fields a frame without a hand leaves behind
FrameCounters(self) ==
    <<self.hand_movement_data.total_frames, self.hand_movement_data.hand_detected_frames,
      self.hand_movement_data.tracking_lost_count, self.was_hand_detected_last_frame,
      self.last_frame_time>>

\* C18: a loop iteration whose camera read fails leaves total_frames,
\* hand_detected_frames, tracking_lost_count, was_hand_detected_last_frame
\* and last_frame_time as a successfully read frame without a hand, taken
\* at some clock reading of that iteration, would leave them.
C18_FailedReadIsNoHandFrame ==
    [][(n_calls' = n_calls + 1 /\ op'.name = "balloon_read_failed") =>
          \E dt \in Ticks :
              FrameCounters(game') = FrameCounters(_track_hand_data(game, NoHand, now + dt))]_vars

\* C17: a frame whose snapshot is partial (at least one landmark, fewer than
\* 9) is completed by every game loop without raising: no iteration of
\* AngleMasterGame, MazeGame or FingerPainterGame indexes a landmark the
\* snapshot does not contain.
C17_PartialSnapshotTolerated ==
    (/\ op.name \in {"angle_master_frame", "maze_frame", "finger_painter_frame"}
     /\ Len(op.lm_list) \in 1..8)
        => pc # "IndexError"

\* C20: no iteration of the main menu or of a game loop skips the stop
\* signal: an iteration that starts with a quit pending (window close or
\* ESC) stops the loop, also when its camera read fails, so the loop stops
\* even while every read fails.
C20_QuitObservedEveryIteration ==
    [][(quit_pending /\ n_calls' = n_calls + 1) =>
          (pc' = "exited" \/ game'.game_over)]_vars

\* C26: in every state reached through track_pinch_event, pinch_timing holds
\* one gap per attempt after the first, pinch_durations one duration per
\* closed pinch (all attempts, less the open one), pinch_distances and
\* pinch_positions one entry per attempt, and last_pinch_time is set exactly
\* when a duration has been recorded.
C26_HistoryLengths ==
    pc = "pinch_api" =>
        LET pd == game.pinch_data
            attempts == pd.total_pinch_attempts
            open == IF game.current_pinch_start # None THEN 1 ELSE 0
        IN  /\ Len(pd.pinch_timing) = (IF attempts > 0 THEN attempts - 1 ELSE 0)
            /\ Len(pd.pinch_durations) = attempts - open
            /\ Len(pd.pinch_distances) = attempts
            /\ Len(pd.pinch_positions) = attempts
            /\ (game.last_pinch_time # None) = (pd.pinch_durations # << >>)

\* two pinches made, the first released and the second still held
C26_Witness ==
    /\ pc = "pinch_api"
    /\ op.name = "track_pinch_event"
    /\ game.pinch_data.total_pinch_attempts = 2
    /\ game.current_pinch_start # None
    /\ Len(game.pinch_data.pinch_durations) = 1
    /\ Len(game.pinch_data.pinch_timing) = 1
    /\ game.last_pinch_time # None

\* C27: every speed sample recorded by _track_hand_data is the displacement
\* between two consecutively detected hand positions divided by the time
\* elapsed between those two detections, also when frames without a hand lie
\* between them.
C27_SpeedOverDetectionGap ==
    [][(op'.name = "_track_hand_data"
        /\ game'.hand_movement_data.total_movements # game.hand_movement_data.total_movements) =>
          LET prev == game.hand_movement_data.hand_positions[1]
              cur == <<op'.lm_list[9][2], op'.lm_list[9][3]>>
              elapsed == op'.time - prev[3]
              d2 == (cur[1] - prev[1]) * (cur[1] - prev[1])
                    + (cur[2] - prev[2]) * (cur[2] - prev[2])
              speeds == game'.hand_movement_data.movement_speeds
              v == speeds[Len(speeds)]
          IN  v[1] * v[1] * elapsed * elapsed = d2 * v[2] * v[2]
      ]_vars

\* C30: in BaseGame.show_game_over_screen a pinch closes the screen only on a
\* successfully read frame that shows a pinch and whose preceding successfully
\* read frame, seen since the screen opened, showed none, so a pinch held as
\* the screen opens closes nothing until it is released and made again; the
\* main menu counts a pinch shown on its first frame as a click, which selects
\* the button under the cursor.
ShowsPinchAtDefault(gap) == gap >= 0 /\ gap < DefaultPinchThreshold * DefaultPinchThreshold

C30_GameOverPinchNeedsRelease ==
    [][/\ (pc = "game_over_screen" /\ pc' = "returned" /\ op'.event = "none") =>
            /\ op'.name = "game_over_frame"
            /\ ShowsPinchAtDefault(ObservedGap(op'.lm_list))
            /\ frames_seen # << >>
            /\ ~ShowsPinchAtDefault(frames_seen[Len(frames_seen)])
       /\ (pc = "menu" /\ frames_seen = << >> /\ frames_seen' # << >>
            /\ op'.event # "QUIT" /\ op'.over_button
            /\ ShowsPinchAtDefault(ObservedGap(op'.lm_list))) => pc' = "selected"
      ]_vars

\* the screen opened on a held pinch, saw it released, and a new pinch closed it
C30_Witness ==
    /\ pc = "returned"
    /\ op.name = "game_over_frame"
    /\ op.event = "none"
    /\ Len(frames_seen) = 3
    /\ ShowsPinchAtDefault(frames_seen[1])
    /\ ~ShowsPinchAtDefault(frames_seen[2])
    /\ ShowsPinchAtDefault(frames_seen[3])

\* C22: every session that comes to an end has had its metrics written exactly
\* once: when the game has returned and been saved, or the process has ended
\* on a window close, save_session has been called once, and it is never
\* called before run returned nor a second time.
C22_EverySessionSavedOnce ==
    /\ app.saved_sessions <= 1
    /\ (pc \in {"saved", "exited"}) => app.saved_sessions = 1
    /\ app.saved_sessions = 1 => pc = "saved"

\* C24: no game releases the camera it shares with MainApp: the capture handle
\* is open during and after every game, so the menu can read frames and the
\* next game can be constructed.
C24_SharedCameraStaysOpen == app.cap_is_opened

\* C28: every percentage of the session metrics lies within 0..100:
\* hand_detection_rate, pinch_success_rate, interaction_effectiveness and the
\* maze's navigation_accuracy.
IsPercentage(x) == ~RLess(x, RInt(0)) /\ ~RLess(RInt(100), x)

C28_PercentagesWithinRange ==
    session_data # None =>
        /\ IsPercentage(session_data.session_metadata.hand_detection_rate)
        /\ IsPercentage(session_data.pinch_analytics.pinch_success_rate)
        /\ IsPercentage(session_data.hand_movement_analytics.interaction_effectiveness)
        /\ ("game_specific_metrics" \in DOMAIN session_data =>
               IsPercentage(session_data.game_specific_metrics.navigation_accuracy))

\* C21: the motion accumulator is updated once for every frame a game loop
\* reads and handles: total_frames of the session metrics is the number of
\* successfully read frames the loop handled.
C21_TotalFramesCountsHandledFrames ==
    session_data # None => session_data.session_metadata.total_frames = Len(frames_seen)

\* C29: in AngleMasterGame.run a frame raises the score, by exactly 100, only
\* when it completes 120 hand-detected frames within 10 degrees of the target
\* with no detected frame out of tolerance among them; hold_time returns to 0
\* on a detected frame 10 degrees or more off and after an award, is left
\* alone by a frame without a hand, and after every frame 0 <= hold_time <
\* 120, score = 100 * len(achieved_angles), len(achieved_angles) =
\* len(target_angles).
\* the detected frames seen since the last detected frame out of tolerance
TrailingHeld(seen) ==
    LET out == {i \in 1..Len(seen) : seen[i] >= 10}
        last_out == IF out = {} THEN 0 ELSE CHOOSE i \in out : \A j \in out : j <= i
    IN  Cardinality({i \in (last_out + 1)..Len(seen) : seen[i] >= 0})

C29_AwardAfterFullHold ==
    [][(pc = "angle_master" /\ pc' = "angle_master" /\ frames_seen' # frames_seen) =>
          LET gap == frames_seen'[Len(frames_seen')]
              held == TrailingHeld(frames_seen')
              completes == gap >= 0 /\ gap < 10 /\ held % 120 = 0
          IN  /\ game'.score = game.score + (IF completes THEN 100 ELSE 0)
              /\ game'.hold_time = IF gap = -1 THEN game.hold_time
                                   ELSE IF gap >= 10 THEN 0
                                   ELSE held % 120
              /\ game'.hold_time >= 0 /\ game'.hold_time < 120
              /\ game'.score = 100 * Len(game'.achieved_angles)
              /\ Len(game'.achieved_angles) = Len(game'.target_angles)
      ]_vars

\* the frame that completed the 120 held frames has brought the award
C29_Witness ==
    /\ pc = "angle_master"
    /\ op.name = "angle_master_frame"
    /\ Len(frames_seen) = 120
    /\ game.score = 100
    /\ game.hold_time = 0
    /\ game.achieved_angles = <<45>>

\* C25: BalloonPopGame pops one balloon per pinch: the score rises by at most
\* 1 between a rising edge of is_pinching and the next falling edge, so it
\* never exceeds the number of rising edges the loop has seen.
C25_OnePopPerPinch ==
    pc = "balloon" => game.score <= edges.rising

\* C23: the games that count pinches count a held pinch once: pinch_count
\* rises by at most 1 per maximal run of consecutive pinching frames, that is,
\* only on a pinching frame whose preceding frame showed no pinch.
C23_HeldPinchCountedOnce ==
    [][(pc = "pinch_runner" /\ game'.pinch_count # game.pinch_count) =>
          /\ game'.pinch_count = game.pinch_count + 1
          /\ FrameShowsPinch(op'.lm_list, 30)
          /\ ~FrameShowsPinch(op.lm_list, 30)
      ]_vars

====
